---------------------------- MODULE Spec2Model ----------------------------
(***************************************************************************)
(* Session coordination of the agent-assist server (server/index.js) and   *)
(* the coaching debounce of the voice agent page (VoiceAgent).             *)
(*                                                                         *)
(*   Spec       the Socket.IO voice-session handlers of the server         *)
(*   SpecChat   the chat-conversation handlers of the server               *)
(*   SpecCoach  the VoiceAgent page: transcript state, debounce timer,     *)
(*              coaching requests and their responses                      *)
(*   SpecSignal the voice rooms and the signaling events of the pages      *)
(*   SpecRegistry  the handlers that look an id up in a registry           *)
(*   SpecKnow   the knowledge service: indexed chunks and search           *)
(***************************************************************************)
EXTENDS Integers, Sequences, FiniteSets, TLC

(***************************************************************************)
(* Bounds of the model.                                                    *)
(***************************************************************************)
\* Socket events the server handles in one run.
MaxEvents == 4

\* Transcript changes on the VoiceAgent page in one run.
MaxChanges == 4

\* Chat events (socket events and admin requests) the server handles in one run.
MaxChatEvents == 3

\* The values Date.now() takes in one run.
Clock == {0, 1}

\* Conversation ids: `conv-${Date.now()}`, written as the clock value.
ConvIds == Clock

\* The sockets that send chat events; the third socket only listens.
ChatSenders == {"c1", "c2"}

\* customerInfo of register; "" stands for an absent one.
CustomerNames == {"", "Bob"}

\* Chunks the knowledge store holds in one run.
MaxChunks == 3

\* Searches started in one run.
MaxSearches == 1

\* Documents uploaded in a run.
MaxUploads == 2

\* Characters of a text to split.
MaxText == 6

\* Window size of chunkText.
MaxSize == 4

\* Numbers in an embedding vector.
MaxDim == 3

\* Tokens the generative model writes.
MaxOutput == 3

\* Entries of the transcript of a coaching request.
MaxTranscript == 2

\* The coaching requests followed: one, since a request shares nothing with another
\* but the knowledge store it reads.
RequestIds == {1}

\* Documents uploaded (doc.id, also standing for doc.name).
Docs == {"d1", "d2"}

\* Embedding vectors the provider returns, other than the all-zero one.
Vectors == {"v1", "v2"}

\* Values of cosineSimilarity, in hundredths.
Scores == {45, 50, 90}

\* limit of search.
Limits == {0, 1, 3}

\* Socket.IO connections (socket ids).
Conns == {"c1", "c2", "c3"}

\* Voice session ids the clients use.
Sessions == {"s1", "s2"}

\* callerName of voice_start; "" stands for an absent (falsy) name.
CallerNames == {"", "Ann"}

\* Final speech results; both recognisers trim them and drop blank ones.
Texts == {"hi"}

\* The page behind each socket: c1 is the VoiceAgent page, the others are VoiceCustomer
\* pages; each page stamps its own entries with its speaker.
SpeakerOf(c) == IF c = "c1" THEN "agent" ELSE "customer"

VARIABLES
    \* ---- server (src/server/index.js) ----
    connState,      \* per socket: "open" (connected, handlers registered) or "closed"
    rooms,          \* per socket: the Socket.IO rooms it has joined
    inbox,          \* per socket: the events the server has emitted to it, in order
    voiceSessions,  \* voiceSessions = { [sessionId]: { entries, callerName } }
    handled,        \* number of socket events handled so far
    lastEvent,      \* the event handled last
    appended,       \* history: per session, the entries pushed since it was started
    ended           \* history: per session, voice_end was handled and no voice_start since

sockVars == <<connState, rooms, inbox, handled, lastEvent>>

voiceVars == <<voiceSessions, appended, ended>>

VARIABLES
    \* ---- server, chat conversations (src/server/index.js) ----
    conversations,  \* conversations = { [id]: { id, messages, customerInfo, status, startTime } }
    socketRole,     \* socket.role, "none" while unset
    socketConv,     \* socket.conversationId, NoId while unset
    autoGreeting,   \* adminConfig.autoGreeting && adminConfig.welcomeMessage
    now,            \* Date.now()
    ending,         \* per conversation id: end-conversation requests awaiting the summary
    sentLog,        \* history: per conversation, the messages send_message appended since
                    \* the conversation was created or last cleared
    generated       \* history: per socket, its last customer register supplied no
                    \* conversationId (the server made the id)

chatVars == <<conversations, socketRole, socketConv, autoGreeting, now, ending, sentLog,
              generated>>

VARIABLES
    \* ---- VoiceAgent page (src/unnamed/part_004) ----
    callActive,          \* useState(false)
    pageJoined,          \* the page's socket is in its session's room (voice_start was emitted)
    transcript,          \* useState<TranscriptEntry[]>([])
    aiCoaching,          \* useState<AiCoaching | null>(null)
    knowledgeSnippets,   \* useState<KnowledgeSnippet[]>([])
    aiLoading,           \* useState(false)
    aiError,             \* useState(false)
    coachingDebounceRef, \* useRef(null): the id setTimeout returned last, 0 for null
    timers,              \* the pending setTimeout callbacks, each with the finalEntries it closed over
    nextTimer,           \* the id the next setTimeout returns
    inflight,            \* the POST /api/coaching requests awaiting their response
    issued,              \* every POST /api/coaching request sent, in order
    changes,             \* history: number of transcript changes (runs of the coaching effect)
    armedAt,             \* history: per timer id, the value of changes when it was armed
    lastAppended,        \* history: the transcript as of the last appended entry
    bursts,              \* history: number of bursts of entries begun
    burstOpen,           \* history: entries were appended since the last request was sent
    callEnded            \* history: endCall ran and startCall has not run since

coachVars == <<callActive, pageJoined, transcript, aiCoaching, knowledgeSnippets, aiLoading, aiError,
               coachingDebounceRef, timers, nextTimer, inflight, issued,
               changes, armedAt, lastAppended, bursts, burstOpen, callEnded>>

VARIABLES
    \* ---- KnowledgeService (src/server/services/knowledgeService.js) ----
    enabled,        \* this.enabled
    chunks,         \* this.db.chunks
    documents,      \* this.db.documents (their ids)
    searching,      \* the search calls awaiting the query embedding
    searches,       \* number of search calls made so far
    results,        \* what the search call that returned last returned
    lastSearch,     \* history: the search call that returned last
    windowEmbeddings \* history: per indexed document, what getEmbedding returned for
                    \* each of its windows

knowVars == <<enabled, chunks, documents, searching, searches, results, lastSearch,
              windowEmbeddings>>

VARIABLES
    \* ---- server, uploaded documents (src/server/index.js) ----
    adminDocuments, \* adminConfig.documents, in order
    ingesting,      \* the processDocument calls whose promise has not resolved
    uploads,        \* number of documents uploaded so far
    outcome         \* history: per upload, "pending" while its processDocument runs, then
                    \* "ok" (it returned true) or "failed"; "none" before the upload

docVars == <<adminDocuments, ingesting, uploads, outcome>>

VARIABLES
    \* ---- chunkText (src/server/services/knowledgeService.js) ----
    rawText,        \* the text to split, a sequence of characters
    chunkSize,      \* size
    overlap,        \* overlap
    textChunks,     \* what chunkText returned
    chunked         \* chunkText has returned

chunkVars == <<rawText, chunkSize, overlap, textChunks, chunked>>

VARIABLES
    \* ---- cosineSimilarity as search calls it (src/server/services/knowledgeService.js) ----
    queryEmbedding, \* queryEmbedding, a sequence of numbers
    chunkEmbedding, \* chunk.embedding of one stored chunk
    chunkScored,    \* "no" before search reaches the chunk, then "skipped" (filtered out)
                    \* or "scored" (cosineSimilarity was called)
    similarity,     \* what cosineSimilarity returned
    sums            \* history: dotProduct, normA and normB at the end of its loop

cosineVars == <<queryEmbedding, chunkEmbedding, chunkScored, similarity, sums>>

VARIABLES
    \* ---- server, POST /api/coaching (src/server/index.js) ----
    modelOutput,    \* result.response.text() the model returned last, a sequence of tokens
    answered,       \* the request modelOutput was returned to, 0 before any
    coachingCalls,  \* the requests in progress, each at one of its two awaits
    requests,       \* number of coaching requests received so far
    received,       \* history: per request, its req.body.transcript
    performed,      \* history: per request, the searches and model invocations it made
    responses       \* per request, what res.json / res.status().json sent

orchVars == <<modelOutput, answered, coachingCalls, requests, received, performed,
              responses>>

VARIABLES
    \* ---- the VoiceAgent and VoiceCustomer pages of one session, with their sockets ----
    inCall,          \* per page: callActive
    mounted,         \* the VoiceCustomer page has run its mount effect (it emitted voice_join)
    localTranscript, \* per page: transcript, useState<TranscriptEntry[]>([])
    peerConnection,  \* per page: peerConnectionRef.current exists, and the remote and
                     \* local descriptions set on it
    outbox,          \* per page: the events socket.emit sent that the server has not read
    arriving,        \* the event the server's event loop read last, and the value of
                     \* handled when it did
    seen,            \* per page: how many events of its socket's inbox it has handled
    saidEarly        \* history: the customer said an entry before a voice_history came

pageVars == <<inCall, mounted, localTranscript, peerConnection, outbox, arriving, seen,
              saidEarly>>

VARIABLES
    \* ---- processDocument, await by await (src/server/services/knowledgeService.js) ----
    ingestion       \* per document: where its processDocument call is ("none" before the
                    \* call, "embedding" at an await of getEmbedding, "done" once it
                    \* returned true, "failed" once it returned false), the number of its
                    \* windows and processedChunks' embeddings so far

ingestVars == <<ingestion>>

VARIABLES
    \* ---- the while loop of chunkText (src/server/services/knowledgeService.js) ----
    windowStart     \* start

loopVars == <<windowStart>>

\* The parts added to the model last.
moreVars == <<orchVars, pageVars, ingestVars, loopVars>>

vars == <<sockVars, voiceVars, chatVars, coachVars, knowVars, docVars, chunkVars, cosineVars,
          moreVars>>

\* What the handlers of one part leave alone.
notVoice == <<chatVars, coachVars, knowVars, docVars, chunkVars,
               cosineVars, moreVars>>

notChat == <<voiceVars, coachVars, knowVars, docVars, chunkVars,
              cosineVars, moreVars>>

notCoach == <<sockVars, voiceVars, chatVars, knowVars, docVars, chunkVars,
               cosineVars, moreVars>>

notKnow == <<sockVars, voiceVars, chatVars, coachVars, docVars, chunkVars,
              cosineVars, moreVars>>

NoSession == [exists |-> FALSE]

NoEvent == [type |-> "none"]

(***************************************************************************)
(* Socket.IO rooms and emitters.                                           *)
(***************************************************************************)
\* socket.join(`voice-${sessionId}`)
VoiceRoom(s) == <<"voice", s>>

\* The sockets currently in a room.
Members(room) == {d \in Conns : connState[d] = "open" /\ room \in rooms[d]}

\* socket.to(room): every socket in the room except the emitting one.
SocketTo(room, sender) == Members(room) \ {sender}

\* Each socket of `to` gets event m appended to what it has received.
DeliverBroken(box, to, m) == [d \in Conns |-> IF d \in to THEN <<m>> \o box[d] ELSE box[d]]

Deliver(box, to, m) == [d \in Conns |-> IF d \in to THEN Append(box[d], m) ELSE box[d]]

Last(q) == q[Len(q)]

(***************************************************************************)
(* Voice session events.                                                   *)
(***************************************************************************)
HistoryEvent(entries) == [type |-> "voice_history", entries |-> entries]

NewEntryEvent(s, e) == [type |-> "voice_new_entry", sessionId |-> s, entry |-> e]

SessionEndedEvent(s) == [type |-> "voice_session_ended", sessionId |-> s]

\* What voice_join sends to the joiner: session.entries.
HistorySentBroken(session) == IF session.entries = <<>> THEN <<>> ELSE <<Last(session.entries)>>

HistorySent(session) == session.entries

\* Who gets voice_new_entry: socket.to(`voice-${sessionId}`).
NewEntryRecipientsBroken(s, sender) == Members(VoiceRoom(s))

NewEntryRecipients(s, sender) == SocketTo(VoiceRoom(s), sender)

\* Who gets voice_session_ended: socket.to(`voice-${sessionId}`).
SessionEndedRecipientsBroken(s, sender) == Members(VoiceRoom(s))

SessionEndedRecipients(s, sender) == SocketTo(VoiceRoom(s), sender)

\* socket.on('disconnect'): only logs; Socket.IO takes the socket out of its rooms.
Disconnect(c) ==
    /\ connState[c] = "open"
    /\ connState' = [connState EXCEPT ![c] = "closed"]
    /\ rooms' = [rooms EXCEPT ![c] = {}]
    /\ UNCHANGED <<inbox, voiceSessions, handled, lastEvent, appended, ended>>
    /\ UNCHANGED notVoice

\* voiceSessions[sessionId] = { entries: [], callerName: callerName || 'Caller' }
NewVoiceSessionBroken(old, name) ==
    [exists |-> TRUE, entries |-> IF old.exists THEN old.entries ELSE <<>>,
     callerName |-> IF name = "" THEN "Caller" ELSE name]

NewVoiceSession(old, name) ==
    [exists |-> TRUE, entries |-> <<>>, callerName |-> IF name = "" THEN "Caller" ELSE name]

\* socket.on('voice_start', ({ sessionId, callerName }) => ...)
VoiceStart(c, s, name) ==
    /\ connState[c] = "open"
    /\ handled < MaxEvents
    /\ rooms' = [rooms EXCEPT ![c] = @ \cup {VoiceRoom(s)}]
    /\ voiceSessions' = [voiceSessions EXCEPT ![s] = NewVoiceSession(@, name)]
    /\ handled' = handled + 1
    /\ lastEvent' = [type |-> "voice_start", conn |-> c, session |-> s, name |-> name]
    /\ appended' = [appended EXCEPT ![s] = <<>>]
    /\ ended' = [ended EXCEPT ![s] = FALSE]
    /\ UNCHANGED <<connState, inbox>>
    /\ UNCHANGED notVoice

\* socket.on('voice_join', ({ sessionId }) => ...)
VoiceJoin(c, s) ==
    /\ connState[c] = "open"
    /\ handled < MaxEvents
    /\ rooms' = [rooms EXCEPT ![c] = @ \cup {VoiceRoom(s)}]
    /\ inbox' = IF voiceSessions[s].exists
                THEN Deliver(inbox, {c}, HistoryEvent(HistorySent(voiceSessions[s])))
                ELSE inbox
    /\ handled' = handled + 1
    /\ lastEvent' = [type |-> "voice_join", conn |-> c, session |-> s]
    /\ UNCHANGED <<connState, voiceSessions, appended, ended>>
    /\ UNCHANGED notVoice

\* socket.on('voice_transcript', ({ sessionId, entry }) => ...)
VoiceTranscriptBroken(c, s, e) ==
    /\ connState[c] = "open"
    /\ handled < MaxEvents
    /\ voiceSessions' = [voiceSessions EXCEPT ![s] =
            [exists |-> TRUE,
             entries |-> Append(IF @.exists THEN @.entries ELSE <<>>, e),
             callerName |-> IF @.exists THEN @.callerName ELSE "Caller"]]
    /\ inbox' = Deliver(inbox, NewEntryRecipients(s, c), NewEntryEvent(s, e))
    /\ handled' = handled + 1
    /\ lastEvent' = [type |-> "voice_transcript", conn |-> c, session |-> s, entry |-> e]
    /\ appended' = [appended EXCEPT ![s] = Append(@, e)]
    /\ UNCHANGED <<connState, rooms, ended>>
    /\ UNCHANGED notVoice

VoiceTranscript(c, s, e) ==
    /\ connState[c] = "open"
    /\ handled < MaxEvents
    /\ voiceSessions' = IF voiceSessions[s].exists
                        THEN [voiceSessions EXCEPT ![s].entries = Append(@, e)]
                        ELSE voiceSessions
    /\ inbox' = Deliver(inbox, NewEntryRecipients(s, c), NewEntryEvent(s, e))
    /\ handled' = handled + 1
    /\ lastEvent' = [type |-> "voice_transcript", conn |-> c, session |-> s, entry |-> e]
    /\ appended' = IF voiceSessions[s].exists
                   THEN [appended EXCEPT ![s] = Append(@, e)]
                   ELSE appended
    /\ UNCHANGED <<connState, rooms, ended>>
    /\ UNCHANGED notVoice

\* socket.on('voice_end', ({ sessionId }) => ...)
VoiceEnd(c, s) ==
    /\ connState[c] = "open"
    /\ handled < MaxEvents
    /\ inbox' = Deliver(inbox, SessionEndedRecipients(s, c), SessionEndedEvent(s))
    /\ voiceSessions' = [voiceSessions EXCEPT ![s] = NoSession]
    /\ handled' = handled + 1
    /\ lastEvent' = [type |-> "voice_end", conn |-> c, session |-> s]
    /\ appended' = [appended EXCEPT ![s] = <<>>]
    /\ ended' = [ended EXCEPT ![s] = TRUE]
    /\ UNCHANGED <<connState, rooms>>
    /\ UNCHANGED notVoice

(***************************************************************************)
(* Peer-connection signaling: the pages emit voice_webrtc_offer,           *)
(* voice_webrtc_answer and voice_webrtc_ice_candidate with { sessionId,    *)
(* payload } and listen for the same events; io.on('connection') registers *)
(* no listener for any of them.                                            *)
(***************************************************************************)
SignalKinds == {"voice_webrtc_offer", "voice_webrtc_answer", "voice_webrtc_ice_candidate"}

\* The opaque offer, answer or candidate a page sends.
Payloads == {"sdp"}

SignalEvent(kind, s, payload) == [type |-> kind, sessionId |-> s, payload |-> payload]

\* Who the server forwards a signaling event to: it has no listener for the event, so
\* nobody.
SignalRecipientsBroken(s, sender) == Members(VoiceRoom(s))

SignalRecipients(s, sender) == {}

\* A signaling event of a page reaches the server.
Signal(c, s, kind, payload) ==
    /\ connState[c] = "open"
    /\ handled < MaxEvents
    /\ inbox' = Deliver(inbox, SignalRecipients(s, c), SignalEvent(kind, s, payload))
    /\ handled' = handled + 1
    /\ lastEvent' = [type |-> kind, conn |-> c, session |-> s, payload |-> payload]
    /\ UNCHANGED <<connState, rooms, voiceSessions, appended, ended>>
    /\ UNCHANGED notVoice

\* The entry a client sends with its next final speech result (id: Date.now()).
ClientEntry(sp, t) == [id |-> handled + 1, speaker |-> sp, text |-> t]

(***************************************************************************)
(* Chat conversations: register, join_conversation, send_message and the   *)
(* admin requests that clear or end conversations.                         *)
(***************************************************************************)
\* An absent (falsy) conversationId.
NoId == -1

NoConv == [exists |-> FALSE]

\* socket.join(conversationId)
ConvRoom(id) == <<"conv", id>>

AgentsRoom == <<"agents">>

\* adminConfig.welcomeMessage
WelcomeMessage == "welcome"

\* io.to(room): every socket in the room.
IoTo(room) == Members(room)

\* io.emit: every connected socket.
IoAll == {d \in Conns : connState[d] = "open"}

\* Each socket of `to` gets the events of ms appended, in order.
DeliverAll(box, to, ms) == [d \in Conns |-> IF d \in to THEN box[d] \o ms ELSE box[d]]

\* Object.values(conversations)
ConversationList(convs) == {convs[id] : id \in {i \in ConvIds : convs[i].exists}}

UpdateConversations(convs) == [type |-> "update_conversations", list |-> ConversationList(convs)]

ChatHistory(msgs) == [type |-> "chat_history", messages |-> msgs]

NewMessage(m) == [type |-> "new_message", msg |-> m]

\* conversations[targetId].messages.push(msg)
PushMessageBroken(msgs, m) == <<m>> \o msgs

PushMessage(msgs, m) == Append(msgs, m)

\* Who gets new_message: io.to(targetId).
NewMessageRecipientsBroken(id, sender) == SocketTo(ConvRoom(id), sender)

NewMessageRecipients(id, sender) == IoTo(ConvRoom(id))

\* The clock advances.
Tick ==
    /\ now + 1 \in Clock
    /\ now' = now + 1
    /\ UNCHANGED <<conversations, socketRole, socketConv, autoGreeting, ending, sentLog, generated>>
    /\ UNCHANGED <<sockVars, notChat>>

\* if (!conversations[conversationId]) conversations[conversationId] = { ... }
CreateOrGetConversationBroken(convs, id, name, t) ==
    [convs EXCEPT ![id] =
        [exists |-> TRUE, id |-> id, messages |-> <<>>,
         customerInfo |-> IF name = "" THEN "Anonymous" ELSE name,
         status |-> "waiting", startTime |-> t]]

CreateOrGetConversation(convs, id, name, t) ==
    IF convs[id].exists THEN convs
    ELSE [convs EXCEPT ![id] =
            [exists |-> TRUE, id |-> id, messages |-> <<>>,
             customerInfo |-> IF name = "" THEN "Anonymous" ELSE name,
             status |-> "waiting", startTime |-> t]]

\* socket.on('register', ...) with role 'customer'.
RegisterCustomer(c, givenId, name) ==
    LET id == IF givenId = NoId THEN now ELSE givenId
        created == CreateOrGetConversation(conversations, id, name, now)
        greet == autoGreeting /\ created[id].messages = <<>>
        welcomeMsg == [id |-> now, role |-> "agent", text |-> WelcomeMessage,
                       conversationId |-> id]
        greeted == IF greet
                   THEN [created EXCEPT ![id].messages = PushMessage(@, welcomeMsg)]
                   ELSE created
        joined == [rooms EXCEPT ![c] = @ \cup {ConvRoom(id)}]
        inRoom == {d \in Conns : connState[d] = "open" /\ ConvRoom(id) \in joined[d]}
        box1 == DeliverAll(inbox, {c}, <<ChatHistory(created[id].messages),
                                         [type |-> "session_started", conversationId |-> id]>>)
        box2 == Deliver(box1, IoAll, UpdateConversations(created))
        box3 == IF greet
                THEN Deliver(Deliver(box2, inRoom, NewMessage(welcomeMsg)),
                             IoAll, UpdateConversations(greeted))
                ELSE box2
    IN  /\ connState[c] = "open"
        /\ handled < MaxChatEvents
        /\ socketRole' = [socketRole EXCEPT ![c] = "customer"]
        /\ socketConv' = [socketConv EXCEPT ![c] = id]
        /\ rooms' = joined
        /\ conversations' = greeted
        /\ inbox' = box3
        /\ handled' = handled + 1
        /\ lastEvent' = [type |-> "register", conn |-> c, conv |-> id, greeted |-> greet]
        /\ sentLog' = IF conversations[id].exists THEN sentLog
                      ELSE [sentLog EXCEPT ![id] = <<>>]
        /\ generated' = [generated EXCEPT ![c] = (givenId = NoId)]
        /\ UNCHANGED <<connState, autoGreeting, now, ending>>
        /\ UNCHANGED notChat

\* socket.on('register', ...) with role 'agent'.
RegisterAgent(c) ==
    /\ connState[c] = "open"
    /\ handled < MaxChatEvents
    /\ socketRole' = [socketRole EXCEPT ![c] = "agent"]
    /\ rooms' = [rooms EXCEPT ![c] = @ \cup {AgentsRoom}]
    /\ inbox' = Deliver(inbox, {c}, UpdateConversations(conversations))
    /\ handled' = handled + 1
    /\ lastEvent' = [type |-> "register", conn |-> c, conv |-> NoId, greeted |-> FALSE]
    /\ UNCHANGED <<connState, conversations, socketConv, autoGreeting, now, ending, sentLog, generated>>
    /\ UNCHANGED notChat

\* socket.on('join_conversation', (conversationId) => ...)
JoinConversation(c, id) ==
    LET isAgent == socketRole[c] = "agent"
        found == isAgent /\ conversations[id].exists
        activated == IF found THEN [conversations EXCEPT ![id].status = "active"]
                     ELSE conversations
    IN  /\ connState[c] = "open"
        /\ handled < MaxChatEvents
        /\ rooms' = IF isAgent THEN [rooms EXCEPT ![c] = @ \cup {ConvRoom(id)}] ELSE rooms
        /\ conversations' = activated
        /\ inbox' = IF found
                    THEN Deliver(Deliver(inbox, {c}, ChatHistory(conversations[id].messages)),
                                 IoAll, UpdateConversations(activated))
                    ELSE inbox
        /\ handled' = handled + 1
        /\ lastEvent' = [type |-> "join_conversation", conn |-> c, conv |-> id]
        /\ UNCHANGED <<connState, socketRole, socketConv, autoGreeting, now, ending, sentLog, generated>>
        /\ UNCHANGED notChat

\* socket.on('send_message', ({ conversationId, text, role }) => ...); role "none"
\* stands for an absent role.
SendMessage(c, givenId, text, role) ==
    LET targetId == IF givenId = NoId THEN socketConv[c] ELSE givenId
        accepted == targetId /= NoId /\ conversations[targetId].exists
        msg == [id |-> now, role |-> IF role = "none" THEN socketRole[c] ELSE role,
                text |-> text, conversationId |-> targetId]
        pushed == [conversations EXCEPT ![targetId].messages = PushMessage(@, msg)]
    IN  /\ connState[c] = "open"
        /\ handled < MaxChatEvents
        /\ handled' = handled + 1
        /\ lastEvent' = [type |-> "send_message", conn |-> c, conv |-> targetId,
                         accepted |-> accepted, msg |-> msg]
        /\ IF accepted
           THEN /\ conversations' = pushed
                /\ inbox' = Deliver(Deliver(inbox, NewMessageRecipients(targetId, c),
                                            NewMessage(msg)),
                                    IoAll, UpdateConversations(pushed))
                /\ sentLog' = [sentLog EXCEPT ![targetId] = Append(@, msg)]
           ELSE UNCHANGED <<conversations, inbox, sentLog>>
        /\ UNCHANGED <<connState, rooms, socketRole, socketConv, autoGreeting, now, ending, generated>>
        /\ UNCHANGED notChat

\* app.delete('/api/admin/chat-history'): one conversation's messages, or, without an
\* id of an existing conversation, every conversation.
ClearChatHistory(givenId) ==
    LET one == givenId /= NoId /\ conversations[givenId].exists
        cleared == IF one THEN [conversations EXCEPT ![givenId].messages = <<>>]
                   ELSE [id \in ConvIds |-> NoConv]
    IN  /\ handled < MaxChatEvents
        /\ conversations' = cleared
        /\ inbox' = Deliver(Deliver(inbox, IF one THEN IoTo(ConvRoom(givenId)) ELSE IoAll,
                                    ChatHistory(<<>>)),
                            IoAll, UpdateConversations(cleared))
        /\ handled' = handled + 1
        /\ lastEvent' = [type |-> "clear_history", conv |-> givenId]
        /\ sentLog' = IF one THEN [sentLog EXCEPT ![givenId] = <<>>]
                      ELSE [id \in ConvIds |-> <<>>]
        /\ UNCHANGED <<connState, rooms, socketRole, socketConv, autoGreeting, now, ending, generated>>
        /\ UNCHANGED notChat

\* What end-conversation does once it has the summary (or needs none).
FinishEnd(id) ==
    LET removed == [conversations EXCEPT ![id] = NoConv]
    IN  /\ conversations' = removed
        /\ inbox' = Deliver(Deliver(inbox, IoTo(ConvRoom(id)),
                                    [type |-> "conversation_ended", conversationId |-> id]),
                            IoAll, UpdateConversations(removed))
        /\ sentLog' = [sentLog EXCEPT ![id] = <<>>]

\* app.post('/api/admin/end-conversation'), up to the summary request; summarise says
\* whether the model is configured.
EndConversation(id, summarise) ==
    /\ handled < MaxChatEvents
    /\ handled' = handled + 1
    /\ lastEvent' = [type |-> "end_conversation", conv |-> id]
    /\ IF ~conversations[id].exists
       THEN UNCHANGED <<conversations, inbox, sentLog, ending>>
       ELSE IF summarise /\ conversations[id].messages /= <<>>
            THEN /\ ending' = [ending EXCEPT ![id] = @ + 1]
                 /\ UNCHANGED <<conversations, inbox, sentLog>>
            ELSE /\ FinishEnd(id)
                 /\ UNCHANGED ending
    /\ UNCHANGED <<connState, rooms, socketRole, socketConv, autoGreeting, now, generated>>
    /\ UNCHANGED notChat

\* The summary arrives (ok) or its request fails (~ok): end-conversation completes.
EndConversationResume(id, ok) ==
    /\ ending[id] > 0
    /\ ending' = [ending EXCEPT ![id] = @ - 1]
    /\ IF ok THEN FinishEnd(id) ELSE UNCHANGED <<conversations, inbox, sentLog>>
    /\ UNCHANGED <<connState, rooms, handled, lastEvent, socketRole, socketConv, autoGreeting, now, generated>>
    /\ UNCHANGED notChat

\* No conversation yet; the configuration is the default one (greeting on) or the one
\* loaded from Firestore at startup.
ChatInit ==
    /\ conversations = [id \in ConvIds |-> NoConv]
    /\ socketRole = [c \in Conns |-> "none"]
    /\ socketConv = [c \in Conns |-> NoId]
    /\ autoGreeting \in BOOLEAN
    /\ now = 0
    /\ ending = [id \in ConvIds |-> 0]
    /\ sentLog = [id \in ConvIds |-> <<>>]
    /\ generated = [c \in Conns |-> FALSE]

NextChat ==
    \/ Tick
    \/ \E c \in ChatSenders, id \in ConvIds \cup {NoId}, name \in CustomerNames :
            RegisterCustomer(c, id, name)
    \/ \E c \in ChatSenders : RegisterAgent(c)
    \/ \E c \in ChatSenders, id \in ConvIds : JoinConversation(c, id)
    \/ \E c \in ChatSenders, id \in ConvIds \cup {NoId}, t \in Texts, role \in {"none", "agent"} :
            SendMessage(c, id, t, role)
    \/ \E id \in ConvIds \cup {NoId} : ClearChatHistory(id)
    \/ \E id \in ConvIds, summarise \in BOOLEAN : EndConversation(id, summarise)
    \/ \E id \in ConvIds, ok \in BOOLEAN : EndConversationResume(id, ok)

(***************************************************************************)
(* The VoiceAgent page: transcript, coaching debounce, coaching requests.  *)
(***************************************************************************)
Null == [none |-> TRUE]

\* transcript.filter(e => e.text.trim())
FinalEntries(tr) == SelectSeq(tr, LAMBDA e : e.text /= "")

\* finalEntries.map(e => ({ role: e.speaker, text: e.text }))
RequestBody(entries) ==
    [i \in 1..Len(entries) |-> [role |-> entries[i].speaker, text |-> entries[i].text]]

\* if (coachingDebounceRef.current) clearTimeout(coachingDebounceRef.current)
ClearTimeoutBroken(pending, ref) == pending

ClearTimeout(pending, ref) == {t \in pending : t.id /= ref}

\* The entry the page builds for a final speech result or a quick reply, and the one
\* a VoiceCustomer page builds (id: Date.now()).
PageEntry(sp, t) == [id |-> changes + 1, speaker |-> sp, text |-> t]

\* The coaching effect, which React runs after a render in which transcript changed:
\* tr is the new transcript, coaching is aiCoaching as the event handler left it.
CoachingEffect(tr, coaching) ==
    /\ transcript' = tr
    /\ changes' = changes + 1
    /\ IF FinalEntries(tr) = <<>>
       THEN /\ aiCoaching' = Null
            /\ UNCHANGED <<coachingDebounceRef, timers, nextTimer, aiLoading, aiError, armedAt>>
       ELSE /\ aiCoaching' = coaching
            /\ timers' = ClearTimeout(timers, coachingDebounceRef)
                            \cup {[id |-> nextTimer, finalEntries |-> FinalEntries(tr)]}
            /\ coachingDebounceRef' = nextTimer
            /\ nextTimer' = nextTimer + 1
            /\ aiLoading' = TRUE
            /\ aiError' = FALSE
            /\ armedAt' = Append(armedAt, changes + 1)

\* An entry is appended: setTranscript(prev => [...prev, entry]).
AppendEntry(e) ==
    /\ changes < MaxChanges
    /\ CoachingEffect(Append(transcript, e), aiCoaching)
    /\ lastAppended' = Append(transcript, e)
    /\ bursts' = IF burstOpen THEN bursts ELSE bursts + 1
    /\ burstOpen' = TRUE

\* startCall: a new call, with an empty transcript and no coaching.
StartCall ==
    /\ ~callActive
    /\ changes < MaxChanges
    /\ callActive' = TRUE
    /\ pageJoined' = TRUE
    /\ CoachingEffect(<<>>, Null)
    /\ callEnded' = FALSE
    /\ UNCHANGED <<knowledgeSnippets, inflight, issued, lastAppended, bursts, burstOpen>>
    /\ UNCHANGED notCoach

\* endCall: stops the recogniser and the audio, emits voice_end.
EndCall ==
    /\ callActive
    /\ callActive' = FALSE
    /\ callEnded' = TRUE
    /\ UNCHANGED <<pageJoined, transcript, aiCoaching, knowledgeSnippets, aiLoading, aiError,
                   coachingDebounceRef, timers, nextTimer, inflight, issued,
                   changes, armedAt, lastAppended, bursts, burstOpen>>
    /\ UNCHANGED notCoach

\* recognition.onresult with a final result: the agent's own entry.
FinalResult(t) ==
    /\ callActive
    /\ AppendEntry(PageEntry("agent", t))
    /\ UNCHANGED <<callActive, pageJoined, knowledgeSnippets, inflight, issued, callEnded>>
    /\ UNCHANGED notCoach

\* speakReply: a quick reply is logged as an agent entry.
SpeakReply(t) ==
    /\ callActive
    /\ AppendEntry([PageEntry("agent", t) EXCEPT !.id = <<"reply", @>>])
    /\ UNCHANGED <<callActive, pageJoined, knowledgeSnippets, inflight, issued, callEnded>>
    /\ UNCHANGED notCoach

\* handleNewEntry: a voice_new_entry from the server, which the socket gets once it is
\* in the session's room; only customer entries are added.
HandleNewEntry(e) ==
    /\ pageJoined
    /\ IF e.speaker = "customer"
       THEN AppendEntry(e)
       ELSE UNCHANGED <<transcript, changes, aiCoaching, coachingDebounceRef, timers,
                        nextTimer, aiLoading, aiError, armedAt, lastAppended, bursts,
                        burstOpen>>
    /\ UNCHANGED <<callActive, pageJoined, knowledgeSnippets, inflight, issued, callEnded>>
    /\ UNCHANGED notCoach

\* The Clear button under the transcript of a finished call.
ClearTranscript ==
    /\ ~callActive
    /\ Len(transcript) > 0
    /\ changes < MaxChanges
    /\ CoachingEffect(<<>>, Null)
    /\ UNCHANGED <<callActive, pageJoined, knowledgeSnippets, inflight, issued, callEnded,
                   lastAppended, bursts, burstOpen>>
    /\ UNCHANGED notCoach

\* A pending debounce timer fires: its callback posts the entries it closed over.
TimerFire(t) ==
    /\ t \in timers
    /\ timers' = timers \ {t}
    /\ inflight' = inflight \cup {[timer |-> t.id, transcript |-> RequestBody(t.finalEntries)]}
    /\ issued' = Append(issued, [timer |-> t.id, transcript |-> RequestBody(t.finalEntries)])
    /\ burstOpen' = FALSE
    /\ UNCHANGED <<callActive, pageJoined, transcript, aiCoaching, knowledgeSnippets, aiLoading,
                   aiError, coachingDebounceRef, nextTimer, changes, armedAt, lastAppended, bursts,
                   callEnded>>
    /\ UNCHANGED notCoach

\* The response of a request arrives: with a coaching object (ok), or without one or
\* with a failed fetch (~ok).
Response(r, ok) ==
    /\ r \in inflight
    /\ inflight' = inflight \ {r}
    /\ IF ok
       THEN /\ aiCoaching' = [cycle |-> r.timer]
            /\ knowledgeSnippets' = [cycle |-> r.timer]
            /\ aiError' = FALSE
       ELSE /\ aiError' = TRUE
            /\ UNCHANGED <<aiCoaching, knowledgeSnippets>>
    /\ aiLoading' = FALSE
    /\ UNCHANGED <<callActive, pageJoined, transcript, coachingDebounceRef, timers, nextTimer, issued,
                   changes, armedAt, lastAppended, bursts, burstOpen, callEnded>>
    /\ UNCHANGED notCoach

\* The page as mounted.
CoachInit ==
    /\ callActive = FALSE
    /\ pageJoined = FALSE
    /\ transcript = <<>>
    /\ aiCoaching = Null
    /\ knowledgeSnippets = <<>>
    /\ aiLoading = FALSE
    /\ aiError = FALSE
    /\ coachingDebounceRef = 0
    /\ timers = {}
    /\ nextTimer = 1
    /\ inflight = {}
    /\ issued = <<>>
    /\ changes = 0
    /\ armedAt = <<>>
    /\ lastAppended = <<>>
    /\ bursts = 0
    /\ burstOpen = FALSE
    /\ callEnded = FALSE

(***************************************************************************)
(* The knowledge service: processDocument stores chunks with their         *)
(* embeddings, search scores them against the query and returns the best.  *)
(***************************************************************************)
\* .filter(s => s.score > 0.45), in hundredths.
Threshold == 45

\* An all-zero embedding vector.
Zeros == "zeros"

\* return null: the embedding request failed.
NoEmbedding == "null"

\* What getEmbedding returns: a vector, or null when the request failed.
EmbeddingValues == Vectors \cup {Zeros, NoEmbedding}

Min(a, b) == IF a < b THEN a ELSE b

\* The chunks search scores: chunk.embedding && chunk.embedding.some(v => v !== 0)
HasEmbedding(chunk) == chunk.embedding /= NoEmbedding /\ chunk.embedding /= Zeros

\* .map(chunk => ({ text, docName, score: this.cosineSimilarity(queryEmbedding, chunk.embedding) }));
\* sim gives the similarity of the query embedding to each vector.
Scored(cs, sim) ==
    LET kept == SelectSeq(cs, HasEmbedding)
    IN  [i \in DOMAIN kept |-> [text |-> kept[i].text, docName |-> kept[i].docName,
                                score |-> sim[kept[i].embedding]]]

\* s.score > 0.45
QualifiesBroken(score) == score >= Threshold

QualifiesAll(score) == TRUE

Qualifies(score) == score > Threshold

\* Array.prototype.sort with (a, b) => b.score - a.score: stable, so x goes after every
\* element that does not sort after it.
InsertByScore(x, sorted) ==
    LET k == Cardinality({i \in DOMAIN sorted : sorted[i].score >= x.score})
    IN  SubSeq(sorted, 1, k) \o <<x>> \o SubSeq(sorted, k + 1, Len(sorted))

RECURSIVE SortByScore(_)
SortByScore(q) ==
    IF q = <<>> THEN <<>>
    ELSE InsertByScore(Last(q), SortByScore(SubSeq(q, 1, Len(q) - 1)))

\* .slice(0, limit)
Slice(q, limit) == SubSeq(q, 1, Min(limit, Len(q)))

\* scored.filter(...).sort(...).slice(0, limit)
SearchResultsUnfiltered(cs, sim, limit) ==
    IF \E i \in DOMAIN cs : cs[i].embedding = NoEmbedding THEN <<>>
    ELSE Slice(SortByScore([i \in DOMAIN cs |->
                    [text |-> cs[i].text, docName |-> cs[i].docName,
                     score |-> IF cs[i].embedding = Zeros THEN 0 ELSE sim[cs[i].embedding]]]),
               limit)

SearchResults(cs, sim, limit) ==
    Slice(SortByScore(SelectSeq(Scored(cs, sim), LAMBDA r : Qualifies(r.score))), limit)

\* processedChunks: one chunk per window of the document, with embs[i] the embedding
\* getEmbedding returned for window i (null when its request failed).
DocChunksBroken(doc, embs) ==
    SelectSeq([i \in DOMAIN embs |->
                    [docId |-> doc, docName |-> doc, chunkIndex |-> i - 1,
                     text |-> <<doc, i - 1>>, embedding |-> embs[i]]],
              LAMBDA ch : ch.embedding /= NoEmbedding)

DocChunks(doc, embs) ==
    [i \in DOMAIN embs |->
        [docId |-> doc, docName |-> doc, chunkIndex |-> i - 1,
         text |-> <<doc, i - 1>>, embedding |-> embs[i]]]

\* processDocument(docMetadata, filePath), when its embeddings are in.
ProcessDocument(doc, embs) ==
    /\ enabled
    /\ doc \notin documents
    /\ Len(chunks) + Len(embs) <= MaxChunks
    /\ documents' = documents \cup {doc}
    /\ chunks' = chunks \o DocChunks(doc, embs)
    /\ windowEmbeddings' = [windowEmbeddings EXCEPT ![doc] = embs]
    /\ UNCHANGED <<enabled, searching, searches, results, lastSearch>>
    /\ UNCHANGED notKnow

\* search(query, limit), up to the request of the query embedding; requested is the
\* limit its caller was asked for.
SearchCall(requested, limit) ==
    /\ searches < MaxSearches
    /\ searches' = searches + 1
    /\ IF ~enabled \/ chunks = <<>>
       THEN /\ results' = <<>>
            /\ lastSearch' = [id |-> searches + 1, limit |-> limit, requested |-> requested,
                              embedded |-> FALSE, sim |-> <<>>]
            /\ UNCHANGED searching
       ELSE /\ searching' = searching \cup {[id |-> searches + 1, limit |-> limit,
                                             requested |-> requested]}
            /\ UNCHANGED <<results, lastSearch>>
    /\ UNCHANGED <<enabled, chunks, documents, windowEmbeddings>>
    /\ UNCHANGED notKnow

\* knowledgeService.search(query, limit), called with the limit wanted.
SearchStart(limit) == SearchCall(limit, limit)

\* limit || 5
EndpointLimit(limit) == IF limit = 0 THEN 5 ELSE limit

\* app.post('/api/knowledge/search') with { query, limit }, query given.
KnowledgeSearch(limit) == SearchCall(limit, EndpointLimit(limit))

\* search, from the query embedding on: the request failed (~ok), or it gave a vector
\* whose similarity to each vector is sim.
SearchFinish(call, ok, sim) ==
    /\ call \in searching
    /\ searching' = searching \ {call}
    /\ results' = IF ok THEN SearchResults(chunks, sim, call.limit) ELSE <<>>
    /\ lastSearch' = [id |-> call.id, limit |-> call.limit, requested |-> call.requested,
                     embedded |-> ok, sim |-> IF ok THEN sim ELSE <<>>]
    /\ UNCHANGED <<enabled, chunks, documents, searches, windowEmbeddings>>
    /\ UNCHANGED notKnow

\* The service as constructed, with or without an API key, over an empty store.
KnowInit ==
    /\ enabled \in BOOLEAN
    /\ chunks = <<>>
    /\ documents = {}
    /\ searching = {}
    /\ searches = 0
    /\ results = <<>>
    /\ lastSearch = [id |-> 0, limit |-> 0, requested |-> 0, embedded |-> FALSE, sim |-> <<>>]
    /\ windowEmbeddings = [doc \in Docs |-> <<>>]

NextKnow ==
    \/ \E doc \in Docs, n \in 1..2 : \E embs \in [1..n -> EmbeddingValues] :
            ProcessDocument(doc, embs)
    \/ \E limit \in Limits : SearchStart(limit)
    \/ \E limit \in Limits : KnowledgeSearch(limit)
    \/ \E call \in searching, ok \in BOOLEAN, sim \in [Vectors -> Scores] :
            SearchFinish(call, ok, sim)

(***************************************************************************)
(* Uploaded documents: the upload handler lists the document and starts    *)
(* its ingestion in the background, the delete handler unlists it.         *)
(***************************************************************************)
\* processedChunks of a document with this id and name.
DocChunksOf(id, name, embs) ==
    [i \in DOMAIN embs |->
        [docId |-> id, docName |-> name, chunkIndex |-> i - 1,
         text |-> <<name, i - 1>>, embedding |-> embs[i]]]

\* const d = adminConfig.documents.find(item => item.id === doc.id);
\* if (d) d.status = status
SetStatus(docs, id, status) ==
    LET found == {i \in DOMAIN docs : docs[i].id = id}
    IN  IF found = {} THEN docs
        ELSE LET first == CHOOSE i \in found : \A j \in found : i <= j
             IN  [docs EXCEPT ![first].status = status]

\* app.post('/api/admin/documents') with a file, at time t: the document is listed as
\* 'processed' and processDocument is called; upload is the history number of the upload.
UploadDocument(name, t) ==
    /\ uploads < MaxUploads
    /\ uploads' = uploads + 1
    /\ adminDocuments' = Append(adminDocuments,
                                [id |-> t, name |-> name, status |-> "processed",
                                 upload |-> uploads + 1])
    /\ ingesting' = ingesting \cup {[upload |-> uploads + 1, id |-> t, name |-> name]}
    /\ outcome' = [outcome EXCEPT ![uploads + 1] = "pending"]
    /\ UNCHANGED <<sockVars, voiceVars, chatVars, coachVars, knowVars, chunkVars, cosineVars, moreVars>>

\* processDocument resolves and the .then of the upload handler runs. The service is
\* disabled (it returns undefined), reading the file threw (~read, it returns false), or
\* the windows were stored with the embeddings embs (it returns true).
IngestFinished(task, read, embs) ==
    LET success == enabled /\ read
    IN  /\ task \in ingesting
        /\ success => Len(chunks) + Len(embs) <= MaxChunks
        /\ ingesting' = ingesting \ {task}
        /\ documents' = IF success THEN documents \cup {task.id} ELSE documents
        /\ chunks' = IF success THEN chunks \o DocChunksOf(task.id, task.name, embs) ELSE chunks
        /\ windowEmbeddings' = IF success THEN [windowEmbeddings EXCEPT ![task.name] = embs]
                               ELSE windowEmbeddings
        /\ adminDocuments' = SetStatus(adminDocuments, task.id,
                                       IF success THEN "ready" ELSE "error")
        /\ inbox' = Deliver(inbox, {c \in Conns : connState[c] = "open"},
                            [type |-> "config_updated"])
        /\ outcome' = [outcome EXCEPT ![task.upload] = IF success THEN "ok" ELSE "failed"]
        /\ UNCHANGED <<connState, rooms, handled, lastEvent, uploads>>
        /\ UNCHANGED <<enabled, searching, searches, results, lastSearch>>
        /\ UNCHANGED <<voiceVars, chatVars, coachVars, chunkVars, cosineVars, moreVars>>

\* app.delete('/api/admin/documents/:id')
DeleteDocument(id) ==
    /\ adminDocuments' = SelectSeq(adminDocuments, LAMBDA d : d.id /= id)
    /\ UNCHANGED <<ingesting, uploads, outcome>>
    /\ UNCHANGED <<sockVars, voiceVars, chatVars, coachVars, knowVars, chunkVars, cosineVars, moreVars>>

\* documents: [] and no upload yet.
DocInit ==
    /\ adminDocuments = <<>>
    /\ ingesting = {}
    /\ uploads = 0
    /\ outcome = [u \in 1..MaxUploads |-> "none"]

NextDocs ==
    \/ \E name \in Docs, t \in Clock : UploadDocument(name, t)
    \/ \E task \in ingesting, read \in BOOLEAN, n \in 0..1 :
            \E embs \in [1..n -> EmbeddingValues] : IngestFinished(task, read, embs)
    \/ \E id \in Clock : DeleteDocument(id)

(***************************************************************************)
(* chunkText: the windows processDocument splits a text into.              *)
(***************************************************************************)
\* The characters texts are made of.
Chars == {"a", "b"}

\* The texts of at most MaxText characters.
TextsUpTo(n) == UNION {[1..k -> Chars] : k \in 0..n}

\* text.slice(start, end), for 0 <= start <= end <= text.length
TextSlice(txt, from, to) == SubSeq(txt, from + 1, to)

\* start += (size - overlap)
ChunkStepBroken(sz, ov) == sz

ChunkStepNone(sz, ov) == 0

ChunkStep(sz, ov) == sz - ov

\* The while loop of chunkText, from the value of start on.
RECURSIVE ChunkFromNoBreak(_, _, _, _)
ChunkFromNoBreak(txt, sz, ov, from) ==
    IF from < Len(txt)
    THEN LET to == Min(from + sz, Len(txt))
         IN  <<TextSlice(txt, from, to)>> \o ChunkFromNoBreak(txt, sz, ov, from + ChunkStep(sz, ov))
    ELSE <<>>

RECURSIVE ChunkFrom(_, _, _, _)
ChunkFrom(txt, sz, ov, from) ==
    IF from < Len(txt)
    THEN LET to == Min(from + sz, Len(txt))
         IN  <<TextSlice(txt, from, to)>> \o
             (IF to = Len(txt) THEN <<>>
              ELSE ChunkFrom(txt, sz, ov, from + ChunkStep(sz, ov)))
    ELSE <<>>

\* chunkText(text, size, overlap)
chunkTextNoBreak(txt, sz, ov) == ChunkFromNoBreak(txt, sz, ov, 0)

chunkText(txt, sz, ov) == ChunkFrom(txt, sz, ov, 0)

\* const chunks = this.chunkText(text, chunkSize, overlap);
ChunkTextCall ==
    /\ ~chunked
    /\ textChunks' = chunkText(rawText, chunkSize, overlap)
    /\ chunked' = TRUE
    /\ UNCHANGED <<rawText, chunkSize, overlap>>
    /\ UNCHANGED <<sockVars, voiceVars, chatVars, coachVars, knowVars, docVars, cosineVars, moreVars>>

\* No text is being split.
ChunkIdle ==
    /\ rawText = <<>>
    /\ chunkSize = 1
    /\ overlap = 0
    /\ textChunks = <<>>
    /\ chunked = FALSE

\* Any text, any window size and any overlap smaller than it.
ChunkInit ==
    /\ rawText \in TextsUpTo(MaxText)
    /\ chunkSize \in 1..MaxSize
    /\ overlap \in 0..(chunkSize - 1)
    /\ textChunks = <<>>
    /\ chunked = FALSE

NextChunk == ChunkTextCall

\* One iteration of while (start < text.length): a window is pushed, then the loop
\* breaks at the end of the text or start moves on.
ChunkIteration ==
    LET end == Min(windowStart + chunkSize, Len(rawText))
    IN  /\ ~chunked
        /\ windowStart < Len(rawText)
        /\ textChunks' = Append(textChunks, TextSlice(rawText, windowStart, end))
        /\ IF end = Len(rawText)
           THEN chunked' = TRUE /\ UNCHANGED windowStart
           ELSE /\ windowStart' = windowStart + ChunkStep(chunkSize, overlap)
                /\ UNCHANGED chunked
        /\ UNCHANGED <<rawText, chunkSize, overlap>>
        /\ UNCHANGED <<sockVars, voiceVars, chatVars, coachVars, knowVars, docVars,
                       cosineVars, orchVars, pageVars, ingestVars>>

\* The loop condition is false: return chunks.
ChunkLoopExit ==
    /\ ~chunked
    /\ ~(windowStart < Len(rawText))
    /\ chunked' = TRUE
    /\ UNCHANGED <<rawText, chunkSize, overlap, textChunks, windowStart>>
    /\ UNCHANGED <<sockVars, voiceVars, chatVars, coachVars, knowVars, docVars, cosineVars,
                   orchVars, pageVars, ingestVars>>

\* let start = 0
LoopInit == windowStart = 0

NextLoop == ChunkIteration \/ ChunkLoopExit

(***************************************************************************)
(* IEEE 754 double arithmetic, as far as cosineSimilarity needs it.        *)
(* Natural numbers of any size are sequences of digits in base Base, the   *)
(* least significant first and the most significant not 0.                 *)
(***************************************************************************)
Base == 8192

RECURSIVE Trim(_)
Trim(a) ==
    IF a = <<>> THEN <<>>
    ELSE IF a[Len(a)] = 0 THEN Trim(SubSeq(a, 1, Len(a) - 1)) ELSE a

\* Digits from column sums, least significant first.
RECURSIVE Carried(_, _)
Carried(cols, carry) ==
    IF cols = <<>> THEN (IF carry = 0 THEN <<>> ELSE Carried(<<carry>>, 0))
    ELSE LET t == cols[1] + carry
         IN  <<t % Base>> \o Carried(Tail(cols), t \div Base)

Digit(a, i) == IF i \in DOMAIN a THEN a[i] ELSE 0

BigOfInt(n) == Carried(<<n>>, 0)

BigAdd(a, b) ==
    LET n == IF Len(a) > Len(b) THEN Len(a) ELSE Len(b)
    IN  Carried([i \in 1..n |-> Digit(a, i) + Digit(b, i)], 0)

RECURSIVE ColumnSum(_, _, _, _)
ColumnSum(a, b, c, i) ==
    IF i > Len(a) THEN 0
    ELSE a[i] * Digit(b, c + 1 - i) + ColumnSum(a, b, c, i + 1)

BigMul(a, b) ==
    IF a = <<>> \/ b = <<>> THEN <<>>
    ELSE Trim(Carried([c \in 1..(Len(a) + Len(b) - 1) |-> ColumnSum(a, b, c, 1)], 0))

RECURSIVE BigLeq(_, _)
BigLeq(a, b) ==
    IF Len(a) /= Len(b) THEN Len(a) < Len(b)
    ELSE IF a = <<>> THEN TRUE
    ELSE IF a[Len(a)] /= b[Len(b)] THEN a[Len(a)] < b[Len(b)]
    ELSE BigLeq(Trim(SubSeq(a, 1, Len(a) - 1)), Trim(SubSeq(b, 1, Len(b) - 1)))

DigitBits == 13

Pow2(k) == [i \in 1..(k \div DigitBits + 1) |->
                IF i = k \div DigitBits + 1 THEN 2 ^ (k % DigitBits) ELSE 0]

\* floor(a / 2^k)
BigShr(a, k) ==
    LET q == k \div DigitBits
        r == k % DigitBits
    IN  IF Len(a) <= q THEN <<>>
        ELSE Trim([i \in 1..(Len(a) - q) |->
                    (a[i + q] \div 2 ^ r) + (Digit(a, i + q + 1) % 2 ^ r) * 2 ^ (DigitBits - r)])

\* Number of binary digits of a.
BitLen(a) ==
    IF a = <<>> THEN 0
    ELSE (Len(a) - 1) * DigitBits + (CHOOSE b \in 1..DigitBits : 2 ^ (b - 1) <= a[Len(a)] /\ a[Len(a)] < 2 ^ b)

\* The largest r + t * 2^i + ... with Fits: binary search from bit i down.
RECURSIVE SqrtFrom(_, _, _)
SqrtFrom(n, r, i) ==
    IF i < 0 THEN r
    ELSE LET t == BigAdd(r, Pow2(i))
         IN  IF BigLeq(BigMul(t, t), n) THEN SqrtFrom(n, t, i - 1)
             ELSE SqrtFrom(n, r, i - 1)

\* floor(sqrt(n)), for n < 2^(2 * bits)
BigSqrt(n, bits) == SqrtFrom(n, <<>>, bits - 1)

RECURSIVE DivFrom(_, _, _, _)
DivFrom(a, b, q, i) ==
    IF i < 0 THEN q
    ELSE LET t == BigAdd(q, Pow2(i))
         IN  IF BigLeq(BigMul(t, b), a) THEN DivFrom(a, b, t, i - 1)
             ELSE DivFrom(a, b, q, i - 1)

\* floor(a / b), for a / b < 2^bits
BigDiv(a, b, bits) == DivFrom(a, b, <<>>, bits - 1)

\* A positive double is m * 2^e with 2^52 <= m < 2^53.
MantissaBits == 53

\* Round to nearest, ties to even: the double nearest to (big + fraction) * 2^e, where
\* big has more than MantissaBits binary digits and 0 <= fraction < 1, inexact saying
\* whether the fraction is not 0.
RoundToDouble(big, inexact, e) ==
    LET shift == BitLen(big) - MantissaBits
        down == BigShr(big, shift)
        \* twice the midpoint between down and down + 1, and twice big, in units 2^e
        mid == BigMul(BigAdd(BigAdd(down, down), <<1>>), Pow2(shift))
        twice == BigAdd(big, big)
        up == IF twice = mid THEN inexact \/ down[1] % 2 = 1
              ELSE ~BigLeq(twice, mid)
        m == IF up THEN BigAdd(down, <<1>>) ELSE down
    IN  IF m = Pow2(MantissaBits) THEN [m |-> Pow2(MantissaBits - 1), e |-> e + shift + 1]
        ELSE [m |-> m, e |-> e + shift]

\* Math.sqrt(n) for an integer n >= 1
MathSqrt(n) ==
    LET scaled == BigMul(BigOfInt(n), Pow2(2 * 54))
        root == BigSqrt(scaled, 54 + BitLen(BigOfInt(n)))
    IN  RoundToDouble(root, BigMul(root, root) /= scaled, -54)

\* x * y
DoubleMul(x, y) == RoundToDouble(BigMul(x.m, y.m), FALSE, x.e + y.e)

\* n / y for an integer n >= 1
DoubleDiv(n, y) ==
    LET scaled == BigMul(BigOfInt(n), Pow2(108))
        quot == BigDiv(scaled, y.m, 108 - 52 + BitLen(BigOfInt(n)))
    IN  RoundToDouble(quot, BigMul(quot, y.m) /= scaled, -108 - y.e)

(***************************************************************************)
(* cosineSimilarity on vectors of numbers, and the chunks search hands it. *)
(***************************************************************************)
\* The numbers vectors are made of.
Components == {-1, 0, 1}

\* The vectors of at most n numbers.
VectorsUpTo(n) == UNION {[1..k -> Components] : k \in 0..n}

\* Math.sqrt(n) for the values normA and normB can have.
SqrtTable == [n \in 1..MaxDim |-> MathSqrt(n)]

\* Math.sqrt(normA) * Math.sqrt(normB)
DenominatorNoRoot(normA, normB) ==
    RoundToDouble(BigMul(BigOfInt(normA * normB), Pow2(60)), FALSE, -60)

Denominator(normA, normB) == DoubleMul(SqrtTable[normA], SqrtTable[normB])

\* dotProduct / (Math.sqrt(normA) * Math.sqrt(normB)) for a dotProduct of 1 or more
QuotientTable ==
    [dot \in 1..MaxDim, normA \in 1..MaxDim, normB \in 1..MaxDim |->
        DoubleDiv(dot, Denominator(normA, normB))]

\* The sum of x[i] * y[i] over the first n indices.
RECURSIVE SumOfProducts(_, _, _)
SumOfProducts(x, y, n) ==
    IF n = 0 THEN 0 ELSE SumOfProducts(x, y, n - 1) + x[n] * y[n]

\* The loop of cosineSimilarity, over i < vecA.length. Past the end of vecB, vecB[i] is
\* undefined and dotProduct and normB become NaN.
Sums(vecA, vecB) ==
    LET short == Len(vecB) < Len(vecA)
    IN  [nan |-> short,
         dotProduct |-> IF short THEN 0 ELSE SumOfProducts(vecA, vecB, Len(vecA)),
         normA |-> SumOfProducts(vecA, vecA, Len(vecA)),
         normB |-> IF short THEN 0 ELSE SumOfProducts(vecB, vecB, Len(vecA))]

\* The double 0, and NaN.
Zero == [nan |-> FALSE, sign |-> 0, m |-> <<>>, e |-> 0]

NaN == [nan |-> TRUE, sign |-> 0, m |-> <<>>, e |-> 0]

\* cosineSimilarity(vecA, vecB): NaN === 0 is false.
cosineSimilarity(vecA, vecB) ==
    LET sm == Sums(vecA, vecB)
    IN  IF sm.normA = 0 \/ (~sm.nan /\ sm.normB = 0) THEN Zero
        ELSE IF sm.nan THEN NaN
        ELSE IF sm.dotProduct = 0 THEN Zero
        ELSE LET q == QuotientTable[IF sm.dotProduct < 0 THEN -sm.dotProduct
                                    ELSE sm.dotProduct, sm.normA, sm.normB]
             IN  [nan |-> FALSE, sign |-> IF sm.dotProduct < 0 THEN -1 ELSE 1,
                  m |-> q.m, e |-> q.e]

\* chunk.embedding && chunk.embedding.some(v => v !== 0)
SomeNonZero(embedding) == \E i \in DOMAIN embedding : embedding[i] /= 0

\* search, for one chunk of the store: the filter, then the score of the map.
ScoreChunk ==
    /\ chunkScored = "no"
    /\ IF SomeNonZero(chunkEmbedding)
       THEN /\ chunkScored' = "scored"
            /\ similarity' = cosineSimilarity(queryEmbedding, chunkEmbedding)
            /\ sums' = Sums(queryEmbedding, chunkEmbedding)
       ELSE /\ chunkScored' = "skipped"
            /\ UNCHANGED <<similarity, sums>>
    /\ UNCHANGED <<queryEmbedding, chunkEmbedding>>
    /\ UNCHANGED <<sockVars, voiceVars, chatVars, coachVars, knowVars, docVars, chunkVars,
                   moreVars>>

\* No search is scoring a chunk.
CosineIdle ==
    /\ queryEmbedding = <<>>
    /\ chunkEmbedding = <<>>
    /\ chunkScored = "no"
    /\ similarity = Zero
    /\ sums = Sums(<<>>, <<>>)

\* Any query embedding the provider returned and any embedding the store holds.
CosineInit ==
    /\ queryEmbedding \in VectorsUpTo(MaxDim) \ {<<>>}
    /\ chunkEmbedding \in VectorsUpTo(MaxDim)
    /\ chunkScored = "no"
    /\ similarity = Zero
    /\ sums = Sums(<<>>, <<>>)

NextCosine == ScoreChunk

(***************************************************************************)
(* The two pages of one voice session: the VoiceAgent page starts it, the  *)
(* VoiceCustomer page was opened with ?session= naming it. Each page emits *)
(* to the server through its socket, in order, and handles what the server *)
(* emits to its socket, in order.                                          *)
(***************************************************************************)
Pages == {"agent", "customer"}

\* The socket of each page.
ConnOf(page) == IF page = "agent" THEN "c1" ELSE "c2"

\* sessionId of the VoiceAgent page, urlSession of the VoiceCustomer page.
PageSession == "s1"

\* The events io.on('connection') registers a listener for, of those the pages emit.
Listened == {"voice_start", "voice_join", "voice_transcript"}

\* new RTCPeerConnection(configuration), or none when getUserMedia failed.
NoPeer == [exists |-> FALSE, remote |-> "none", local |-> "none"]

NewPeer(ok) == [exists |-> ok, remote |-> "none", local |-> "none"]

\* setTranscript(prev => [...prev, entry]) of recognition.onresult
SaidLocallyBroken(prev, entry) == prev

SaidLocally(prev, entry) == Append(prev, entry)

\* The events of the pages the server has still to handle.
Pending ==
    Len(SelectSeq(outbox["agent"], LAMBDA ev : ev.type \in Listened))
        + Len(SelectSeq(outbox["customer"], LAMBDA ev : ev.type \in Listened))
        + (IF arriving.at = handled THEN 1 ELSE 0)

\* The entry of a final speech result: id is Date.now().toString(), later for each
\* entry of the page.
SpokenEntry(page, t) ==
    [id |-> 1 + Cardinality({i \in DOMAIN localTranscript[page] :
                                localTranscript[page][i].speaker = page}),
     speaker |-> page, text |-> t]

\* VoiceAgent startCall: initWebRTC, setTranscript([]), then voice_start and
\* voice_request_offer are emitted; ok: getUserMedia gave the microphone.
AgentStartCall(name, ok) ==
    /\ ~inCall["agent"]
    /\ handled + Pending < MaxEvents
    /\ inCall' = [inCall EXCEPT !["agent"] = TRUE]
    /\ peerConnection' = [peerConnection EXCEPT !["agent"] = NewPeer(ok)]
    /\ localTranscript' = [localTranscript EXCEPT !["agent"] = <<>>]
    /\ outbox' = [outbox EXCEPT !["agent"] =
            @ \o <<[type |-> "voice_start", callerName |-> name],
                   [type |-> "voice_request_offer"]>>]
    /\ UNCHANGED <<mounted, arriving, seen, saidEarly>>
    /\ UNCHANGED <<sockVars, voiceVars, chatVars, coachVars, knowVars, docVars, chunkVars,
                   cosineVars, orchVars, ingestVars, loopVars>>

\* VoiceCustomer mount effect: joinRoom emits voice_join for urlSession.
CustomerMount ==
    /\ ~mounted
    /\ handled + Pending < MaxEvents
    /\ mounted' = TRUE
    /\ outbox' = [outbox EXCEPT !["customer"] = Append(@, [type |-> "voice_join"])]
    /\ UNCHANGED <<inCall, localTranscript, peerConnection, arriving, seen, saidEarly>>
    /\ UNCHANGED <<sockVars, voiceVars, chatVars, coachVars, knowVars, docVars, chunkVars,
                   cosineVars, orchVars, ingestVars, loopVars>>

\* VoiceCustomer startCall with a urlSession: initWebRTC; nothing is emitted.
CustomerStartCall(ok) ==
    /\ mounted
    /\ ~inCall["customer"]
    /\ inCall' = [inCall EXCEPT !["customer"] = TRUE]
    /\ peerConnection' = [peerConnection EXCEPT !["customer"] = NewPeer(ok)]
    /\ UNCHANGED <<mounted, localTranscript, outbox, arriving, seen, saidEarly>>
    /\ UNCHANGED <<sockVars, voiceVars, chatVars, coachVars, knowVars, docVars, chunkVars,
                   cosineVars, orchVars, ingestVars, loopVars>>

\* recognition.onresult of either page with a final, non-blank result t.
Speak(page, t) ==
    LET entry == SpokenEntry(page, t)
    IN  /\ inCall[page]
        /\ handled + Pending < MaxEvents
        /\ localTranscript' = [localTranscript EXCEPT ![page] = SaidLocally(@, entry)]
        /\ outbox' = [outbox EXCEPT ![page] =
                Append(@, [type |-> "voice_transcript", entry |-> entry])]
        /\ saidEarly' = (saidEarly \/ (page = "customer" /\
                \A i \in 1..seen["customer"] :
                    inbox[ConnOf("customer")][i].type /= "voice_history"))
        /\ UNCHANGED <<inCall, mounted, peerConnection, arriving, seen>>
        /\ UNCHANGED <<sockVars, voiceVars, chatVars, coachVars, knowVars, docVars,
                       chunkVars, cosineVars, orchVars, ingestVars, loopVars>>

\* The server's event loop reads the next event of a page's socket, once the handler of
\* the event before has run.
Arrive(page) ==
    /\ outbox[page] /= <<>>
    /\ Head(outbox[page]).type \in Listened
    /\ arriving.at < handled
    /\ handled < MaxEvents
    /\ arriving' = [page |-> page, event |-> Head(outbox[page]), at |-> handled]
    /\ outbox' = [outbox EXCEPT ![page] = Tail(@)]
    /\ UNCHANGED <<inCall, mounted, localTranscript, peerConnection, seen, saidEarly>>
    /\ UNCHANGED <<sockVars, voiceVars, chatVars, coachVars, knowVars, docVars, chunkVars,
                   cosineVars, orchVars, ingestVars, loopVars>>

\* The next event of a page's socket is one the server has no listener for: dropped.
Unheard(page) ==
    /\ outbox[page] /= <<>>
    /\ Head(outbox[page]).type \notin Listened
    /\ outbox' = [outbox EXCEPT ![page] = Tail(@)]
    /\ UNCHANGED <<inCall, mounted, localTranscript, peerConnection, arriving, seen,
                   saidEarly>>
    /\ UNCHANGED <<sockVars, voiceVars, chatVars, coachVars, knowVars, docVars, chunkVars,
                   cosineVars, orchVars, ingestVars, loopVars>>

\* The server's handler of the event seen runs.
Serve ==
    /\ arriving.at = handled
    /\ LET c == ConnOf(arriving.page)
           ev == arriving.event
       IN  CASE ev.type = "voice_start" -> VoiceStart(c, PageSession, ev.callerName)
             [] ev.type = "voice_join" -> VoiceJoin(c, PageSession)
             [] ev.type = "voice_transcript" -> VoiceTranscript(c, PageSession, ev.entry)

\* The page's answer to an offer: setRemoteDescription, createAnswer,
\* setLocalDescription.
AnswerOffer(peer) == [peer EXCEPT !.remote = "offer", !.local = "answer"]

\* A page handles the next event the server emitted to its socket. The VoiceCustomer page
\* listens for voice_history, voice_new_entry and voice_webrtc_offer; the VoiceAgent page
\* for voice_new_entry (it keeps the customer's entries), voice_webrtc_offer and
\* voice_webrtc_answer.
Receive(page) ==
    LET ev == inbox[ConnOf(page)][seen[page] + 1]
        offered == ev.type = "voice_webrtc_offer" /\ peerConnection[page].exists
    IN  /\ seen[page] < Len(inbox[ConnOf(page)])
        /\ seen' = [seen EXCEPT ![page] = @ + 1]
        /\ localTranscript' =
                IF ev.type = "voice_history" /\ page = "customer"
                THEN [localTranscript EXCEPT ![page] = ev.entries]
                ELSE IF ev.type = "voice_new_entry"
                        /\ (page = "customer" \/ ev.entry.speaker = "customer")
                THEN [localTranscript EXCEPT ![page] = Append(@, ev.entry)]
                ELSE localTranscript
        /\ peerConnection' =
                IF offered THEN [peerConnection EXCEPT ![page] = AnswerOffer(@)]
                ELSE IF ev.type = "voice_webrtc_answer" /\ page = "agent"
                        /\ peerConnection[page].exists
                THEN [peerConnection EXCEPT ![page].remote = "answer"]
                ELSE peerConnection
        /\ outbox' = IF offered
                     THEN [outbox EXCEPT ![page] = Append(@, [type |-> "voice_webrtc_answer"])]
                     ELSE outbox
        /\ UNCHANGED <<inCall, mounted, arriving, saidEarly>>
        /\ UNCHANGED <<sockVars, voiceVars, chatVars, coachVars, knowVars, docVars,
                       chunkVars, cosineVars, orchVars, ingestVars, loopVars>>

\* Both pages loaded, no call yet.
PageInit ==
    /\ inCall = [page \in Pages |-> FALSE]
    /\ mounted = FALSE
    /\ localTranscript = [page \in Pages |-> <<>>]
    /\ peerConnection = [page \in Pages |-> NoPeer]
    /\ outbox = [page \in Pages |-> <<>>]
    /\ arriving = [page |-> "agent", event |-> NoEvent, at |-> -1]
    /\ seen = [page \in Pages |-> 0]
    /\ saidEarly = FALSE

NextPages ==
    \/ \E name \in CallerNames, ok \in BOOLEAN : AgentStartCall(name, ok)
    \/ CustomerMount
    \/ \E ok \in BOOLEAN : CustomerStartCall(ok)
    \/ \E page \in Pages, t \in Texts : Speak(page, t)
    \/ \E page \in Pages : Arrive(page)
    \/ \E page \in Pages : Unheard(page)
    \/ Serve
    \/ \E page \in Pages : Receive(page)

(***************************************************************************)
(* processDocument with its awaits: other calls of processDocument and     *)
(* searches run while it waits for an embedding.                           *)
(***************************************************************************)
\* No call of processDocument for the document yet.
NotIngested == [at |-> "none", windows |-> 0, embs |-> <<>>]

\* for (let i = 0; i < chunks.length; i++): the loop is over.
LoopOverBroken(embs, windows) == TRUE

LoopOver(embs, windows) == Len(embs) >= windows

\* The windows of the documents being embedded, not yet in the store.
Uncommitted ==
    LET Sum[ds \in SUBSET Docs] ==
            IF ds = {} THEN 0
            ELSE LET d == CHOOSE x \in ds : TRUE
                 IN  (IF ingestion[d].at = "embedding" THEN ingestion[d].windows ELSE 0)
                        + Sum[ds \ {d}]
    IN  Sum[Docs]

\* Step 3 of processDocument: this.db.documents.push(docMetadata),
\* this.db.chunks.push(...processedChunks), saveDb(), return true.
UpdateDb(doc, windows, embs) ==
    /\ documents' = documents \cup {doc}
    /\ chunks' = chunks \o DocChunks(doc, embs)
    /\ windowEmbeddings' = [windowEmbeddings EXCEPT ![doc] = embs]
    /\ ingestion' = [ingestion EXCEPT ![doc] =
                        [at |-> "done", windows |-> windows, embs |-> embs]]

\* processDocument(docMetadata, filePath) up to its first await: the service is
\* disabled (it returns at once), readFileSync threw (~read, it returns false), or
\* chunkText gave n windows; with no window it updates the store at once.
ProcessStart(doc, read, n) ==
    /\ ingestion[doc].at = "none"
    /\ Len(chunks) + Uncommitted + n <= MaxChunks
    /\ IF ~enabled THEN UNCHANGED <<chunks, documents, windowEmbeddings, ingestion>>
       ELSE IF ~read
       THEN /\ ingestion' = [ingestion EXCEPT ![doc].at = "failed"]
            /\ UNCHANGED <<chunks, documents, windowEmbeddings>>
       ELSE IF LoopOver(<<>>, n)
       THEN UpdateDb(doc, n, <<>>)
       ELSE /\ ingestion' = [ingestion EXCEPT ![doc] =
                                [at |-> "embedding", windows |-> n, embs |-> <<>>]]
            /\ UNCHANGED <<chunks, documents, windowEmbeddings>>
    /\ UNCHANGED <<enabled, searching, searches, results, lastSearch>>
    /\ UNCHANGED <<sockVars, voiceVars, chatVars, coachVars, docVars, chunkVars, cosineVars,
                   orchVars, pageVars, loopVars>>

\* await this.getEmbedding(chunkText) has returned emb (null when the request failed);
\* processedChunks.push, and after the last window the store is updated.
EmbeddingReturned(doc, emb) ==
    LET embs == Append(ingestion[doc].embs, emb)
    IN  /\ ingestion[doc].at = "embedding"
        /\ IF LoopOver(embs, ingestion[doc].windows)
           THEN UpdateDb(doc, ingestion[doc].windows, embs)
           ELSE /\ ingestion' = [ingestion EXCEPT ![doc].embs = embs]
                /\ UNCHANGED <<chunks, documents, windowEmbeddings>>
        /\ UNCHANGED <<enabled, searching, searches, results, lastSearch>>
        /\ UNCHANGED <<sockVars, voiceVars, chatVars, coachVars, docVars, chunkVars,
                       cosineVars, orchVars, pageVars, loopVars>>

IngestInit == ingestion = [doc \in Docs |-> NotIngested]

NextIngest ==
    \/ \E doc \in Docs, read \in BOOLEAN, n \in 0..2 : ProcessStart(doc, read, n)
    \/ \E doc \in Docs, emb \in EmbeddingValues : EmbeddingReturned(doc, emb)
    \/ SearchStart(3)
    \/ \E call \in searching, ok \in BOOLEAN, sim \in [Vectors -> {45, 90}] :
            SearchFinish(call, ok, sim)

(***************************************************************************)
(* POST /api/coaching: one knowledge search, one call of the generative    *)
(* model, and the parsing of what the model wrote.                         *)
(***************************************************************************)
\* What the model writes, token by token: a markdown fence with or without the word
\* json after it, braces, members of an object (the escalationRisk it emits) and prose.
FenceJson == "fence-json"

Fence == "fence"

Open == "{"

Close == "}"

Prose == "w"

JsonMembers == {"risk:50", "risk:150"}

OutputTokens == {FenceJson, Fence, Open, Close, Prose} \cup JsonMembers

Outputs == UNION {[1..k -> OutputTokens] : k \in 0..MaxOutput}

\* What customers and agents say.
Utterances == {"hi", "refund"}

\* req.body.transcript 
Transcripts ==
    UNION {[1..k -> [speaker : {"customer"}, text : Utterances]] : k \in 0..MaxTranscript}

\* The number a member gives for escalationRisk.
RiskOf(token) == IF token = "risk:50" THEN 50 ELSE 150

\* cleaned: raw.replace(/^FENCEjson\s*/i, '') strips a leading fence with json, then
\* .replace(/^FENCE\s*/i, '') a leading fence (of a fence with json it leaves the word),
\* then .replace(/\s*FENCE$/i, '') a trailing fence.
Cleaned(raw) ==
    LET a == IF raw /= <<>> /\ raw[1] = FenceJson THEN Tail(raw) ELSE raw
        b == IF a /= <<>> /\ a[1] = Fence THEN Tail(a)
             ELSE IF a /= <<>> /\ a[1] = FenceJson THEN <<Prose>> \o Tail(a)
             ELSE a
    IN  IF b /= <<>> /\ b[Len(b)] = Fence THEN SubSeq(b, 1, Len(b) - 1) ELSE b

\* How many objects are open after the first k tokens.
DepthAfter(ts, k) ==
    Cardinality({i \in 1..k : ts[i] = Open}) - Cardinality({i \in 1..k : ts[i] = Close})

\* JSON.parse(ts) does not throw: ts is one object, of members and objects.
ValidJson(ts) ==
    /\ Len(ts) >= 2
    /\ \A i \in DOMAIN ts : ts[i] \in {Open, Close} \cup JsonMembers
    /\ \A k \in 1..(Len(ts) - 1) : DepthAfter(ts, k) >= 1
    /\ DepthAfter(ts, Len(ts)) = 0

\* JSON.parse(ts) for a valid ts: the escalationRisk of the object is what its last
\* member of that name gives, if it has one.
ParsedJson(ts) ==
    LET top == {i \in DOMAIN ts : ts[i] \in JsonMembers /\ DepthAfter(ts, i) = 1}
    IN  IF top = {} THEN [escalationRisk |-> [given |-> FALSE, value |-> 0]]
        ELSE LET last == CHOOSE i \in top : \A j \in top : j <= i
             IN  [escalationRisk |-> [given |-> TRUE, value |-> RiskOf(ts[last])]]

\* cleaned.match(/\{[\s\S]*\}/): from the first { to the last }, <<>> for no match.
JsonMatch(ts) ==
    LET opens == {i \in DOMAIN ts : ts[i] = Open}
        closes == {i \in DOMAIN ts : ts[i] = Close}
    IN  IF opens = {} \/ closes = {} THEN <<>>
        ELSE LET first == CHOOSE i \in opens : \A j \in opens : i <= j
                 last == CHOOSE i \in closes : \A j \in closes : j <= i
             IN  IF first < last THEN SubSeq(ts, first, last) ELSE <<>>

\* No response yet, and the responses of the handler.
NoResponse == [status |-> 0, success |-> "absent", coaching |-> Null, error |-> "",
               knowledgeContext |-> <<>>]

\* res.status(503).json({ error: 'Gemini AI not configured' })
NotConfigured == [status |-> 503, success |-> "absent", coaching |-> Null,
                  error |-> "Gemini AI not configured", knowledgeContext |-> <<>>]

\* res.json({ coaching: null })
NoTranscript == [status |-> 200, success |-> "absent", coaching |-> Null, error |-> "",
                 knowledgeContext |-> <<>>]

\* res.status(500).json({ error: 'Failed to generate coaching' })
Failed == [status |-> 500, success |-> "absent", coaching |-> Null,
           error |-> "Failed to generate coaching", knowledgeContext |-> <<>>]

\* res.json({ success: true, coaching, knowledgeContext })
Coached(coaching, context) ==
    [status |-> 200, success |-> "true", coaching |-> coaching, error |-> "",
     knowledgeContext |-> context]

\* res.json({ success: false, error: 'Could not parse coaching JSON', knowledgeContext })
Unparseable(context) ==
    [status |-> 200, success |-> "false", coaching |-> Null,
     error |-> "Could not parse coaching JSON", knowledgeContext |-> context]

\* transcript[transcript.length - 1]?.text || ''
LastMessageBroken(body) == body[1].text

LastMessage(body) == body[Len(body)].text

\* knowledgeService.search(lastMessage, 2)
SearchOp(body) == [op |-> "search", query |-> LastMessage(body), limit |-> 2]

\* geminiModel.generateContent(prompt)
GenerateOp == [op |-> "generate", query |-> "", limit |-> 0]

\* The try block after the model's text is in: strict parse, then the fallback.
ParseOutput(raw, context) ==
    LET cleaned == Cleaned(raw)
        jsonMatch == JsonMatch(cleaned)
    IN  IF ValidJson(cleaned) THEN Coached(ParsedJson(cleaned), context)
        ELSE IF jsonMatch /= <<>>
             THEN IF ValidJson(jsonMatch) THEN Coached(ParsedJson(jsonMatch), context)
                  ELSE Failed
             ELSE Unparseable(context)

\* app.post('/api/coaching') with { transcript }, up to its first await. geminiModel is
\* set exactly when the knowledge service is enabled: both need GEMINI_API_KEY.
CoachingRequest(body) ==
    LET id == requests + 1
    IN  /\ requests + 1 \in RequestIds
        /\ requests' = id
        /\ received' = [received EXCEPT ![id] = body]
        /\ IF ~enabled
           THEN /\ responses' = [responses EXCEPT ![id] = NotConfigured]
                /\ UNCHANGED <<coachingCalls, performed>>
           ELSE IF body = <<>>
           THEN /\ responses' = [responses EXCEPT ![id] = NoTranscript]
                /\ UNCHANGED <<coachingCalls, performed>>
           ELSE /\ performed' = [performed EXCEPT ![id] = <<SearchOp(body)>>]
                /\ coachingCalls' = coachingCalls \cup
                        {[id |-> id, at |-> "search", storeEmpty |-> chunks = <<>>,
                          knowledgeContext |-> <<>>]}
                /\ UNCHANGED responses
        /\ UNCHANGED <<modelOutput, answered>>
        /\ UNCHANGED <<sockVars, voiceVars, chatVars, coachVars, knowVars, docVars, chunkVars,
                       cosineVars, pageVars, ingestVars, loopVars>>

\* knowledgeService.search has returned (the query embedding failed, ~ok, or gave a vector
\* whose similarity to each stored vector is sim); the prompt is built and the model called.
CoachingSearched(call, ok, sim) ==
    LET context == IF call.storeEmpty \/ ~ok THEN <<>> ELSE SearchResults(chunks, sim, 2)
    IN  /\ call \in coachingCalls
        /\ call.at = "search"
        /\ coachingCalls' = (coachingCalls \ {call}) \cup
                {[call EXCEPT !.at = "generate", !.knowledgeContext = context]}
        /\ performed' = [performed EXCEPT ![call.id] = Append(@, GenerateOp)]
        /\ UNCHANGED <<modelOutput, answered, requests, received, responses>>
        /\ UNCHANGED <<sockVars, voiceVars, chatVars, coachVars, knowVars, docVars, chunkVars,
                       cosineVars, pageVars, ingestVars, loopVars>>

\* geminiModel.generateContent has thrown, or returned the text raw; modelOutput keeps
\* the last text the model returned and answered the request it was returned to.
CoachingThrown(call) ==
    /\ call \in coachingCalls
    /\ call.at = "generate"
    /\ coachingCalls' = coachingCalls \ {call}
    /\ responses' = [responses EXCEPT ![call.id] = Failed]
    /\ UNCHANGED <<modelOutput, answered, requests, received, performed>>
    /\ UNCHANGED <<sockVars, voiceVars, chatVars, coachVars, knowVars, docVars, chunkVars,
                   cosineVars, pageVars, ingestVars, loopVars>>

CoachingGenerated(call, raw) ==
    /\ call \in coachingCalls
    /\ call.at = "generate"
    /\ coachingCalls' = coachingCalls \ {call}
    /\ modelOutput' = raw
    /\ answered' = call.id
    /\ responses' = [responses EXCEPT ![call.id] = ParseOutput(raw, call.knowledgeContext)]
    /\ UNCHANGED <<requests, received, performed>>
    /\ UNCHANGED <<sockVars, voiceVars, chatVars, coachVars, knowVars, docVars, chunkVars,
                   cosineVars, pageVars, ingestVars, loopVars>>

\* No coaching request yet.
OrchInit ==
    /\ modelOutput = <<>>
    /\ answered = 0
    /\ coachingCalls = {}
    /\ requests = 0
    /\ received = [r \in RequestIds |-> <<>>]
    /\ performed = [r \in RequestIds |-> <<>>]
    /\ responses = [r \in RequestIds |-> NoResponse]

NextOrch ==
    \/ ProcessDocument("d1", <<"v1">>)
    \/ \E body \in Transcripts : CoachingRequest(body)
    \/ \E call \in coachingCalls, ok \in BOOLEAN, sim \in [Vectors -> {50}] :
            CoachingSearched(call, ok, sim)
    \/ \E call \in coachingCalls : CoachingThrown(call)
    \/ \E call \in coachingCalls, raw \in Outputs : CoachingGenerated(call, raw)

NextCoach ==
    \/ StartCall
    \/ EndCall
    \/ \E t \in Texts : FinalResult(t)
    \/ \E t \in Texts : SpeakReply(t)
    \/ \E sp \in {"agent", "customer"}, t \in Texts : HandleNewEntry(PageEntry(sp, t))
    \/ ClearTranscript
    \/ \E t \in timers : TimerFire(t)
    \/ \E r \in inflight, ok \in BOOLEAN : Response(r, ok)

\* The server is up and the sockets have connected (io.on('connection')): no room, no
\* session, nothing emitted yet; any configuration, with or without an API key.
InitBase ==
    /\ connState = [c \in Conns |-> "open"]
    /\ rooms = [c \in Conns |-> {}]
    /\ inbox = [c \in Conns |-> <<>>]
    /\ voiceSessions = [s \in Sessions |-> NoSession]
    /\ handled = 0
    /\ lastEvent = NoEvent
    /\ appended = [s \in Sessions |-> <<>>]
    /\ ended = [s \in Sessions |-> FALSE]
    /\ ChatInit
    /\ CoachInit
    /\ KnowInit
    /\ DocInit
    /\ PageInit
    /\ IngestInit
    /\ LoopInit

\* Nothing is being split.
InitAny == InitBase /\ ChunkIdle /\ CosineIdle /\ OrchInit

\* A call of chunkText, on a server with an API key and the default configuration.
InitChunk == InitBase /\ enabled /\ autoGreeting /\ ChunkInit /\ CosineIdle /\ OrchInit

\* A search scoring one chunk, on a server with an API key and the default configuration.
InitCosine == InitBase /\ enabled /\ autoGreeting /\ ChunkIdle /\ CosineInit /\ OrchInit


\* With an API key and the configuration Firestore held.
InitLoaded == InitAny /\ enabled

\* With an API key and the default configuration: autoGreeting: true.
Init == InitLoaded /\ autoGreeting

\* With the default configuration, with or without an API key.
InitKnow == InitAny /\ autoGreeting

Next ==
    \/ \E c \in Conns : Disconnect(c)
    \/ \E c \in Conns, s \in Sessions, name \in CallerNames : VoiceStart(c, s, name)
    \/ \E c \in Conns, s \in Sessions : VoiceJoin(c, s)
    \/ \E c \in Conns, s \in Sessions, t \in Texts :
            VoiceTranscript(c, s, ClientEntry(SpeakerOf(c), t))
    \/ \E c \in Conns, s \in Sessions : VoiceEnd(c, s)

\* The voice-session handlers that decide who is in a room, and the signaling events.
NextSignal ==
    \/ \E c \in Conns : Disconnect(c)
    \/ \E c \in Conns, s \in Sessions, name \in CallerNames : VoiceStart(c, s, name)
    \/ \E c \in Conns, s \in Sessions : VoiceJoin(c, s)
    \/ \E c \in Conns, s \in Sessions : VoiceEnd(c, s)
    \/ \E c \in Conns, s \in Sessions, kind \in SignalKinds, p \in Payloads :
            Signal(c, s, kind, p)

\* The handlers that look an id up in a registry, chat and voice together, as two
\* sockets use them.
NextRegistry ==
    \/ \E c \in ChatSenders, id \in ConvIds \cup {NoId}, name \in CustomerNames :
            RegisterCustomer(c, id, name)
    \/ \E c \in ChatSenders, id \in ConvIds \cup {NoId}, t \in Texts, role \in {"none", "agent"} :
            SendMessage(c, id, t, role)
    \/ \E c \in ChatSenders, s \in Sessions, name \in CallerNames : VoiceStart(c, s, name)
    \/ \E c \in ChatSenders, s \in Sessions : VoiceJoin(c, s)
    \/ \E c \in ChatSenders, s \in Sessions, t \in Texts :
            VoiceTranscript(c, s, ClientEntry(SpeakerOf(c), t))
    \/ \E c \in ChatSenders, s \in Sessions : VoiceEnd(c, s)

Spec == Init /\ [][Next]_vars

SpecRegistry == Init /\ [][NextRegistry]_vars

SpecSignal == Init /\ [][NextSignal]_vars

SpecChat == InitLoaded /\ [][NextChat]_vars

SpecCoach == Init /\ [][NextCoach]_vars

SpecKnow == InitKnow /\ [][NextKnow]_vars

SpecDocs == InitKnow /\ [][NextDocs]_vars

SpecChunk == InitChunk /\ [][NextChunk]_vars

SpecCosine == InitCosine /\ [][NextCosine]_vars

SpecOrch == InitKnow /\ [][NextOrch]_vars

\* chunkText runs to its end once called: its loop is synchronous code.
SpecLoop == InitChunk /\ [][NextLoop]_vars /\ WF_vars(NextLoop)

SpecPages == Init /\ [][NextPages]_vars

\* Conversations that only end-conversation requests remove, on a server whose model
\* is configured.
NextEnd ==
    \/ \E c \in ChatSenders, id \in ConvIds \cup {NoId}, name \in CustomerNames :
            RegisterCustomer(c, id, name)
    \/ \E c \in ChatSenders, id \in ConvIds \cup {NoId}, t \in Texts, role \in {"none", "agent"} :
            SendMessage(c, id, t, role)
    \/ \E id \in ConvIds : EndConversation(id, enabled)
    \/ \E id \in ConvIds, ok \in BOOLEAN : EndConversationResume(id, ok)

SpecEnd == InitLoaded /\ [][NextEnd]_vars

SpecIngest == InitKnow /\ [][NextIngest]_vars

(***************************************************************************)
(* Claims about the voice-session handlers (specification Spec).           *)
(***************************************************************************)
\* The step just taken handled a socket event of this type.
Handled(type) == handled' = handled + 1 /\ lastEvent'.type = type

\* The voice_new_entry events of a session among the events a socket has received.
NewEntriesOf(box, s) ==
    SelectSeq(box, LAMBDA m : m.type = "voice_new_entry" /\ m.sessionId = s)

\* How many times event m is in what a socket has received.
Copies(box, m) == Cardinality({i \in 1..Len(box) : box[i] = m})

\* C1: when the server handles a transcript event, the socket that sent it receives
\* no voice_new_entry for it, every other socket that is in room voice-{sessionId} at
\* that moment receives it exactly once, and no socket outside the room receives it.
C1_SenderExcludedFromNewEntry ==
    [][Handled("voice_transcript") =>
        LET c == lastEvent'.conn
            s == lastEvent'.session
            m == NewEntryEvent(s, lastEvent'.entry)
        IN  \A d \in Conns :
                /\ Copies(inbox[d], m) = 0
                /\ IF d /= c /\ connState[d] = "open" /\ VoiceRoom(s) \in rooms[d]
                   THEN inbox'[d] = Append(inbox[d], m) /\ Copies(inbox'[d], m) = 1
                   ELSE inbox'[d] = inbox[d]]_vars

\* C1's case: a transcript event was just handled whose sender is in the room, one
\* other socket of the room has received the entry once, and a third socket, outside
\* the room, as well as the sender, have not.
C1_Witness ==
    /\ lastEvent.type = "voice_transcript"
    /\ VoiceRoom(lastEvent.session) \in rooms[lastEvent.conn]
    /\ \E d, x \in Conns \ {lastEvent.conn} :
        /\ d /= x
        /\ VoiceRoom(lastEvent.session) \in rooms[d]
        /\ VoiceRoom(lastEvent.session) \notin rooms[x]
        /\ Copies(inbox[d], NewEntryEvent(lastEvent.session, lastEvent.entry)) = 1
        /\ Copies(inbox[x], NewEntryEvent(lastEvent.session, lastEvent.entry)) = 0
    /\ Copies(inbox[lastEvent.conn], NewEntryEvent(lastEvent.session, lastEvent.entry)) = 0

\* C6: when a socket joins a voice session that exists, the voice_history it is sent
\* is the whole stored entries sequence of the session at that moment, which is every
\* entry pushed since the session was started, in the order pushed.
C6_JoinerGetsFullHistory ==
    [][(Handled("voice_join") /\ voiceSessions[lastEvent'.session].exists) =>
        LET c == lastEvent'.conn
            s == lastEvent'.session
        IN  /\ inbox'[c] = Append(inbox[c], HistoryEvent(voiceSessions[s].entries))
            /\ Last(inbox'[c]).entries = appended[s]]_vars

\* C6's case: a socket has just joined a session in which two entries were pushed
\* before, and the history it received holds both.
C6_Witness ==
    /\ lastEvent.type = "voice_join"
    /\ voiceSessions[lastEvent.session].exists
    /\ Len(appended[lastEvent.session]) >= 2
    /\ inbox[lastEvent.conn] /= <<>>
    /\ Last(inbox[lastEvent.conn]) = HistoryEvent(appended[lastEvent.session])

\* C7: once voice_end was handled for a session id (and the session was not started
\* again), no more voice_new_entry of that session is delivered to any socket.
C7_NoNewEntryAfterEnd ==
    [][\A s \in Sessions : ended[s] =>
        \A d \in Conns : NewEntriesOf(inbox'[d], s) = NewEntriesOf(inbox[d], s)]_vars

RequestSent == Len(issued') = Len(issued) + 1

C4_EveryChangeCancelsTimer ==
    /\ [](Cardinality(timers) <= 1)
    /\ [][RequestSent =>
            /\ Last(issued').timer = coachingDebounceRef
            /\ armedAt[Last(issued').timer] = changes]_vars

\* C5: the response of a request whose timer has been superseded by a newer one is
\* discarded: it changes neither the coaching result nor the knowledge snippets.
C5_LateResponseDiscarded ==
    [][\A r \in inflight :
        (r \notin inflight' /\ r.timer /= coachingDebounceRef) =>
            (aiCoaching' = aiCoaching /\ knowledgeSnippets' = knowledgeSnippets)]_vars

\* C8: once the call is ended its pending debounce timer does not fire, and no
\* coaching request is sent until a call is started again.
C8_NoRequestAfterEndCall ==
    [][callEnded => issued' = issued]_vars

(***************************************************************************)
(* Claims about the chat conversations (specification SpecChat).           *)
(***************************************************************************)
\* What the step just taken delivered to a socket.
Received(d) == SubSeq(inbox'[d], Len(inbox[d]) + 1, Len(inbox'[d]))

\* The welcome message register pushes into a conversation without messages.
IsGreeting(m) == m.role = "agent" /\ m.text = WelcomeMessage

\* C2 as claimed: the stored messages of a conversation are exactly the messages of
\* the send_message events accepted for it since it was created or last cleared, in
\* the order they were handled.
C2_StoredEqualsSent ==
    \A id \in ConvIds :
        (conversations[id].exists /\ sentLog[id] /= <<>>) =>
            conversations[id].messages = sentLog[id]

\* C2 as amended: the stored messages of a conversation are the messages of the
\* accepted send_message events, none lost, duplicated, reordered or modified, in the
\* order they were handled, after the welcome message when register pushed one.
C2_StoredEqualsGreetingThenSent ==
    \A id \in ConvIds :
        conversations[id].exists =>
            LET stored == conversations[id].messages
            IN  \/ stored = sentLog[id]
                \/ /\ stored /= <<>>
                   /\ IsGreeting(stored[1])
                   /\ Tail(stored) = sentLog[id]

\* C2's case: two different messages were accepted for a conversation, one after the
\* other, and are stored in that order after the welcome message.
C2_Witness ==
    \E id \in ConvIds :
        /\ conversations[id].exists
        /\ Len(sentLog[id]) = 2
        /\ sentLog[id][1] /= sentLog[id][2]
        /\ Len(conversations[id].messages) = 3
        /\ lastEvent.type = "send_message"
        /\ lastEvent.accepted
        /\ conversations[id].messages[3] = lastEvent.msg

HandledSignal == handled' = handled + 1 /\ lastEvent'.type \in SignalKinds

\* The signaling events among the events a socket has received.
SignalsIn(box) == SelectSeq(box, LAMBDA m : m.type \in SignalKinds)

\* C11: a signaling event sent for a session whose room has one other member is
\* delivered, payload unchanged, to that member and to no other socket: not to the
\* sender, not to a socket outside the room.
C11_SignalForwardedToOtherMember ==
    [][HandledSignal =>
        LET c == lastEvent'.conn
            s == lastEvent'.session
            m == SignalEvent(lastEvent'.type, s, lastEvent'.payload)
        IN  \A o \in Conns :
                SocketTo(VoiceRoom(s), c) = {o} =>
                    \A d \in Conns :
                        inbox'[d] = IF d = o THEN Append(inbox[d], m) ELSE inbox[d]]_vars

\* C12: an offer sent for a session whose room has no other member is dropped: no
\* socket receives anything (the sender gets no error event), the session registry is
\* unchanged, and no signaling event reaches a socket in any later step that is not
\* itself the handling of a signaling event (nothing is queued for a later joiner).
C12_OfferWithoutPeerDropped ==
    /\ [][(HandledSignal /\ lastEvent'.type = "voice_webrtc_offer"
                /\ SocketTo(VoiceRoom(lastEvent'.session), lastEvent'.conn) = {}) =>
            (inbox' = inbox /\ voiceSessions' = voiceSessions)]_vars
    /\ [][~HandledSignal =>
            \A d \in Conns : SignalsIn(inbox'[d]) = SignalsIn(inbox[d])]_vars

\* C12's case: a socket that started a session and is alone in its room has just sent
\* an offer for it; the session is still there and no socket has received a signaling
\* event.
C12_Witness ==
    /\ lastEvent.type = "voice_webrtc_offer"
    /\ VoiceRoom(lastEvent.session) \in rooms[lastEvent.conn]
    /\ SocketTo(VoiceRoom(lastEvent.session), lastEvent.conn) = {}
    /\ voiceSessions[lastEvent.session].exists
    /\ \A d \in Conns : SignalsIn(inbox[d]) = <<>>

(***************************************************************************)
(* Claims about chat delivery (specification SpecChat).                    *)
(***************************************************************************)
\* The new_message events of a conversation among the events a socket has received.
NewMessagesOf(box, id) ==
    SelectSeq(box, LAMBDA m : m.type = "new_message" /\ m.msg.conversationId = id)

\* The stored message sequence of a conversation, empty when there is none.
StoredOf(convs, id) == IF convs[id].exists THEN convs[id].messages ELSE <<>>

\* The step just taken appended a message to the stored sequence of a conversation.
Pushed(id) == Len(StoredOf(conversations', id)) = Len(StoredOf(conversations, id)) + 1

\* C13: what a socket has received is only ever extended at its end, and a step
\* delivers a new_message of a conversation exactly when it appends a message to the
\* conversation's stored sequence, then the message appended last, and exactly to the
\* sockets in the room at that moment: a socket that stays in the room receives the
\* new_message events in stored order, and nothing is replayed to a later joiner.
C13_NewMessagesInStoredOrder ==
    [][\A id \in ConvIds, d \in Conns :
        /\ Len(inbox'[d]) >= Len(inbox[d])
        /\ SubSeq(inbox'[d], 1, Len(inbox[d])) = inbox[d]
        /\ NewMessagesOf(Received(d), id) =
                IF Pushed(id) /\ connState'[d] = "open" /\ ConvRoom(id) \in rooms'[d]
                THEN <<NewMessage(Last(conversations'[id].messages))>>
                ELSE <<>>]_vars

\* C13's case: a conversation holds two different messages; a socket in its room from
\* the start has received both new_message events in stored order, and a socket that
\* joined the room after the first message has received only the second.
C13_Witness ==
    \E id \in ConvIds, d, x \in Conns :
        /\ conversations[id].exists
        /\ Len(conversations[id].messages) = 2
        /\ conversations[id].messages[1] /= conversations[id].messages[2]
        /\ ConvRoom(id) \in rooms[d] \cap rooms[x]
        /\ NewMessagesOf(inbox[d], id) = <<NewMessage(conversations[id].messages[1]),
                                           NewMessage(conversations[id].messages[2])>>
        /\ NewMessagesOf(inbox[x], id) = <<NewMessage(conversations[id].messages[2])>>

\* The elements of a sequence.
Range(q) == {q[i] : i \in DOMAIN q}

\* The chat messages an event carries.
MessagesIn(m) ==
    CASE m.type = "new_message" -> {m.msg}
      [] m.type = "chat_history" -> Range(m.messages)
      [] m.type = "update_conversations" -> UNION {Range(conv.messages) : conv \in m.list}
      [] OTHER -> {}

\* C14: no event delivered to a customer socket carries a message of a conversation
\* whose room the socket has not joined.
C14_NoMessageOutsideItsRoom ==
    [][\A d \in Conns : socketRole'[d] = "customer" =>
        \A i \in DOMAIN Received(d) : \A x \in MessagesIn(Received(d)[i]) :
            ConvRoom(x.conversationId) \in rooms'[d]]_vars

(***************************************************************************)
(* Claims about the registries: conversations and voiceSessions.           *)
(***************************************************************************)
\* The step just taken handled an event that names an id absent from its registry:
\* send_message without a known conversation, voice_transcript or voice_join without
\* a known session.
UnknownIdHandled ==
    \/ /\ Handled("send_message")
       /\ lastEvent'.conv = NoId \/ ~conversations[lastEvent'.conv].exists
    \/ /\ Handled("voice_transcript") \/ Handled("voice_join")
       /\ ~voiceSessions[lastEvent'.session].exists

CustomerRegistered == Handled("register") /\ lastEvent'.conv /= NoId

\* q is an initial part of r.
IsPrefix(q, r) == Len(q) <= Len(r) /\ SubSeq(r, 1, Len(q)) = q

C17_StartOverwritesSession ==
    [][Handled("voice_start") =>
        LET s == lastEvent'.session
            name == lastEvent'.name
        IN  /\ voiceSessions'[s] = [exists |-> TRUE, entries |-> <<>>,
                                    callerName |-> IF name = "" THEN "Caller" ELSE name]
            /\ \A o \in Sessions \ {s} : voiceSessions'[o] = voiceSessions[o]]_vars

\* C17's case: a session was started again after an entry of it had been stored and
\* forwarded to another socket of its room: it is empty again, under the new name.
C17_Witness ==
    /\ lastEvent.type = "voice_start"
    /\ lastEvent.name = "Ann"
    /\ handled = 4
    /\ voiceSessions[lastEvent.session] =
            [exists |-> TRUE, entries |-> <<>>, callerName |-> "Ann"]
    /\ \E d \in Conns \ {lastEvent.conn} : NewEntriesOf(inbox[d], lastEvent.session) /= <<>>
    /\ \A d \in Conns : Len(inbox[d]) <= 1

\* C18 (specification SpecChat): a clear request with a conversation id empties the
\* messages of that conversation and changes no other conversation.
C18_ClearWithIdClearsOnlyThat ==
    [][(Handled("clear_history") /\ lastEvent'.conv /= NoId) =>
        \A id \in ConvIds :
            IF id = lastEvent'.conv
            THEN conversations[id].exists =>
                    conversations'[id] = [conversations[id] EXCEPT !.messages = <<>>]
            ELSE conversations'[id] = conversations[id]]_vars

\* C19 (specification SpecChat): two sockets that registered as customers without a
\* conversationId have different conversations.
C19_GeneratedIdsDistinct ==
    \A c, d \in Conns :
        (c /= d /\ generated[c] /\ generated[d]) => socketConv[c] /= socketConv[d]

(***************************************************************************)
(* Claims about the knowledge service (specification SpecKnow).            *)
(***************************************************************************)
\* The step just taken is a search call returning.
SearchReturned == lastSearch'.id /= lastSearch.id

\* The position of a result's chunk in the store.
ChunkPos(cs, r) == CHOOSE i \in DOMAIN cs : cs[i].text = r.text

\* C20: every result a search returns has a score strictly above the threshold 0.45
\* (a chunk scoring exactly 0.45 is left out), and the results are in non-increasing
\* score order, results of equal score in the order their chunks were inserted.
C20_AboveThresholdSortedStable ==
    [][SearchReturned =>
        /\ \A i \in DOMAIN results' : results'[i].score > Threshold
        /\ \A i, j \in DOMAIN results' : i < j =>
            /\ results'[i].score >= results'[j].score
            /\ results'[i].score = results'[j].score =>
                    ChunkPos(chunks, results'[i]) < ChunkPos(chunks, results'[j])]_vars

\* C20's case: over a store of three chunks with embeddings, the first scoring exactly
\* 0.45 and the two inserted after it 0.9 each, a search with limit 3 returned the
\* second and the third chunk, in that order, and left the first out.
C20_Witness ==
    /\ lastSearch.embedded
    /\ lastSearch.limit = 3
    /\ Len(chunks) = 3
    /\ \A i \in DOMAIN chunks : HasEmbedding(chunks[i])
    /\ lastSearch.sim[chunks[1].embedding] = Threshold
    /\ lastSearch.sim[chunks[2].embedding] = 90
    /\ Len(results) = 2
    /\ results[1].score = results[2].score
    /\ results[1].text = chunks[2].text
    /\ results[2].text = chunks[3].text

\* The qualifying chunks of the store, best first, as a search with this similarity
\* ranks them.
Ranked(cs, sim) == SortByScore(SelectSeq(Scored(cs, sim), LAMBDA r : r.score > Threshold))

\* C21: a search asked for limit results, directly or through the search endpoint,
\* returns at most limit results, and they are the limit best qualifying chunks.
C21_AtMostLimitBest ==
    [][(SearchReturned /\ lastSearch'.embedded) =>
        /\ Len(results') <= lastSearch'.requested
        /\ results' = Slice(Ranked(chunks, lastSearch'.sim), lastSearch'.requested)]_vars

\* No stored chunk that has an embedding scores above the threshold.
NoneQualifies(cs, sim) ==
    \A i \in DOMAIN cs :
        cs[i].embedding \in Vectors => sim[cs[i].embedding] <= Threshold

\* C22: a search returns the empty list when the service is disabled, when the store
\* is empty, when the query embedding request failed, and when no chunk scores above
\* the threshold.
C22_EmptyResultCases ==
    [][SearchReturned =>
        ((\/ ~enabled
          \/ chunks = <<>>
          \/ ~lastSearch'.embedded
          \/ NoneQualifies(chunks, lastSearch'.sim)) => results' = <<>>)]_vars

\* C22's case: the store holds a chunk with an embedding, the query was embedded, no
\* chunk scored above the threshold, and the search returned no result.
C22_Witness ==
    /\ lastSearch.embedded
    /\ \E i \in DOMAIN chunks : chunks[i].embedding \in Vectors
    /\ NoneQualifies(chunks, lastSearch.sim)
    /\ results = <<>>

\* C23: no result of a search is a chunk whose embedding is null or all zeros.
C23_NoResultWithoutEmbedding ==
    [][SearchReturned =>
        \A i \in DOMAIN results' : \A k \in DOMAIN chunks :
            chunks[k].text = results'[i].text => chunks[k].embedding \in Vectors]_vars

\* C23's case: the store holds a chunk with a null embedding, one with an all-zero
\* embedding and one with a vector; a search with limit 3 returned only the last.
C23_Witness ==
    /\ lastSearch.embedded
    /\ lastSearch.limit = 3
    /\ \E i, j, k \in DOMAIN chunks :
        /\ chunks[i].embedding = Zeros
        /\ chunks[j].embedding = NoEmbedding
        /\ chunks[k].embedding \in Vectors
        /\ results = <<[text |-> chunks[k].text, docName |-> chunks[k].docName,
                        score |-> lastSearch.sim[chunks[k].embedding]]>>

\* The chunks of a document in the store, in store order.
ChunksOf(doc) == SelectSeq(chunks, LAMBDA ch : ch.docId = doc)

Removed(id) ==
    /\ \E i \in DOMAIN adminDocuments : adminDocuments[i].id = id
    /\ \A i \in DOMAIN adminDocuments' : adminDocuments'[i].id /= id
    /\ Len(adminDocuments') < Len(adminDocuments)

\* C25: once the document with an id has been removed, no chunk with that document id
\* remains in the knowledge store (so no later search can return its text).
C25_RemovedDocumentLeavesNoChunk ==
    [][\A id \in Clock : Removed(id) => \A i \in DOMAIN chunks' : chunks'[i].docId /= id]_vars

\* C26: a listed document is reported ready exactly when its own ingestion has finished
\* and completed, and error exactly when its own ingestion has finished and failed; a
\* document whose ingestion has not finished is never reported ready.
C26_StatusFollowsOwnIngestion ==
    \A i \in DOMAIN adminDocuments :
        LET d == adminDocuments[i]
        IN  /\ d.status = "ready" <=> outcome[d.upload] = "ok"
            /\ d.status = "error" <=> outcome[d.upload] = "failed"

(***************************************************************************)
(* Claims about chunkText (specification SpecChunk).                       *)
(***************************************************************************)
\* Where window i (from 1) starts in the text, counting characters from 0.
WindowStart(i) == (i - 1) * (chunkSize - overlap)

\* C28: window i of chunkText(text, S, O), 0 <= O < S, is the S characters of the text
\* from i*(S-O) on, except the last window, which runs from there to the end of the
\* text and is at most S long; every character of the text lies in some window.
C28_WindowsAtMultiplesOfStep ==
    chunked =>
        LET n == Len(textChunks)
        IN  /\ \A i \in 1..(n - 1) :
                    /\ WindowStart(i) + chunkSize <= Len(rawText)
                    /\ textChunks[i] = SubSeq(rawText, WindowStart(i) + 1,
                                              WindowStart(i) + chunkSize)
            /\ n > 0 =>
                    /\ WindowStart(n) < Len(rawText)
                    /\ Len(rawText) - WindowStart(n) <= chunkSize
                    /\ textChunks[n] = SubSeq(rawText, WindowStart(n) + 1, Len(rawText))
            /\ \A p \in 1..Len(rawText) :
                    \E i \in 1..n : /\ WindowStart(i) < p
                                    /\ p <= WindowStart(i) + Len(textChunks[i])

\* A text of several windows that overlap, the last one shorter than the others.
C28_Witness ==
    /\ chunked
    /\ Len(textChunks) >= 3
    /\ overlap >= 1
    /\ Len(textChunks[Len(textChunks)]) < chunkSize
    /\ \E i, j \in DOMAIN rawText : rawText[i] /= rawText[j]

\* chunk.slice(O): a chunk without its first O characters.
Stripped(chunk, ov) == SubSeq(chunk, ov + 1, Len(chunk))

\* The first chunk followed by every later chunk without its first O characters.
RECURSIVE Reconstructed(_, _)
Reconstructed(cs, ov) ==
    IF cs = <<>> THEN <<>>
    ELSE IF Len(cs) = 1 THEN cs[1]
    ELSE Reconstructed(SubSeq(cs, 1, Len(cs) - 1), ov) \o Stripped(cs[Len(cs)], ov)

\* C29: the first chunk of chunkText(text, S, O), 0 <= O < S, followed by each later
\* chunk without its first O characters, is the text.
C29_ChunksReconstructText == chunked => Reconstructed(textChunks, overlap) = rawText

\* A text of both characters split into several windows that share two characters.
C29_Witness ==
    /\ chunked
    /\ Len(textChunks) >= 3
    /\ overlap >= 2
    /\ Len(textChunks[Len(textChunks)]) > overlap
    /\ \E i \in DOMAIN rawText : rawText[i] /= rawText[1]

(***************************************************************************)
(* Claims about cosineSimilarity (specification SpecCosine).               *)
(***************************************************************************)
\* C27: search computes a similarity only between a query embedding and a chunk
\* embedding of the same length; a chunk of another length is skipped before.
C27_ScoredOnlyEqualLength ==
    chunkScored = "scored" => Len(queryEmbedding) = Len(chunkEmbedding)

\* x <= y, for positive doubles.
DoubleLeq(x, y) == x.e < y.e \/ (x.e = y.e /\ BigLeq(x.m, y.m))

\* The double 1.
DoubleOne == [m |-> Pow2(MantissaBits - 1), e |-> 1 - MantissaBits]

\* 1 - 2^-51 <= x <= 1 + 2^-51, for a positive double x: four rounding errors.
WithinRoundingOfOne(x) ==
    /\ DoubleLeq(x, [m |-> BigAdd(DoubleOne.m, <<2>>), e |-> DoubleOne.e])
    /\ \/ x.e = DoubleOne.e
       \/ x.e = DoubleOne.e - 1 /\ BigLeq(Pow2(MantissaBits), BigAdd(x.m, <<4>>))

\* cosineSimilarity was called with two vectors of one length and non-zero norm.
ScoredEqualLength ==
    /\ chunkScored = "scored"
    /\ Len(queryEmbedding) = Len(chunkEmbedding)
    /\ sums.normA /= 0
    /\ sums.normB /= 0

\* C30 as stated: for equal-length vectors of non-zero norm, cosineSimilarity(a, b) lies
\* in [-1, 1], with dot(a,b)^2 <= |a|^2 * |b|^2, and cosineSimilarity(a, a) equals 1.
C30_SimilarityInUnitRange ==
    ScoredEqualLength =>
        /\ sums.dotProduct * sums.dotProduct <= sums.normA * sums.normB
        /\ ~similarity.nan
        /\ similarity.sign /= 0 => DoubleLeq(similarity, DoubleOne)
        /\ queryEmbedding = chunkEmbedding =>
                similarity = [nan |-> FALSE, sign |-> 1, m |-> DoubleOne.m, e |-> DoubleOne.e]

\* C30, amended: for equal-length vectors of non-zero norm, the sums of cosineSimilarity
\* satisfy dot(a,b)^2 <= |a|^2 * |b|^2 and the double it returns is at most 1 + 2^-51 in
\* magnitude; cosineSimilarity(a, a) is positive and within 2^-51 of 1.
C30_SimilarityWithinRounding ==
    ScoredEqualLength =>
        /\ sums.dotProduct * sums.dotProduct <= sums.normA * sums.normB
        /\ ~similarity.nan
        /\ similarity.sign /= 0 =>
                DoubleLeq(similarity, [m |-> BigAdd(DoubleOne.m, <<2>>), e |-> DoubleOne.e])
        /\ queryEmbedding = chunkEmbedding =>
                similarity.sign = 1 /\ WithinRoundingOfOne(similarity)

\* A vector scored against itself, the double returned being greater than 1.
C30_Witness ==
    /\ ScoredEqualLength
    /\ queryEmbedding = chunkEmbedding
    /\ similarity.sign = 1
    /\ ~DoubleLeq(similarity, DoubleOne)

(***************************************************************************)
(* POST /api/coaching.                                                     *)
(***************************************************************************)
\* The request has been answered.
Completed(r) == responses[r] /= NoResponse

\* What a request with a non-empty transcript is to perform: one search with the text
\* of the last entry and limit 2, then one invocation of the model.
SearchThenInvocation(r) ==
    <<[op |-> "search", query |-> received[r][Len(received[r])].text, limit |-> 2],
      [op |-> "generate", query |-> "", limit |-> 0]>>

\* C31 as stated: a completed coaching request with a non-empty transcript has performed
\* exactly one knowledge search, with the text of the last transcript entry and limit 2,
\* and after it exactly one model invocation; one with an empty transcript has performed
\* neither and was answered coaching null.
C31_OneSearchThenOneInvocation ==
    \A r \in RequestIds :
        Completed(r) =>
            IF received[r] /= <<>> THEN performed[r] = SearchThenInvocation(r)
            ELSE performed[r] = <<>> /\ responses[r] = NoTranscript

\* C31, amended: that holds when the generative model is configured; when it is not,
\* the request performs neither and is answered 503, whatever its transcript.
C31_OneSearchThenOneInvocationIfConfigured ==
    \A r \in RequestIds :
        Completed(r) =>
            IF ~enabled THEN performed[r] = <<>> /\ responses[r] = NotConfigured
            ELSE IF received[r] /= <<>> THEN performed[r] = SearchThenInvocation(r)
            ELSE performed[r] = <<>> /\ responses[r] = NoTranscript

\* A request with a transcript of two different utterances was answered with coaching.
C31_Witness ==
    \E r \in RequestIds :
        /\ Len(received[r]) = 2
        /\ received[r][1].text /= received[r][2].text
        /\ responses[r].success = "true"
        /\ performed[r] = SearchThenInvocation(r)

\* The model returned text to request r, and the request has been answered.
Answered(r) == answered = r /\ Completed(r)

\* JSON.parse would throw on ts, or there is no ts.
Unparsable(ts) == ts = <<>> \/ ~ValidJson(ts)

\* The first balanced { ... } of ts, <<>> if it has none.
FirstBalanced(ts) ==
    LET opens == {i \in DOMAIN ts : ts[i] = Open}
    IN  IF opens = {} THEN <<>>
        ELSE LET first == CHOOSE i \in opens : \A j \in opens : i <= j
                 ends == {j \in first..Len(ts) :
                            DepthAfter(ts, j) - DepthAfter(ts, first - 1) = 0}
             IN  IF ends = {} THEN <<>>
                 ELSE SubSeq(ts, first, CHOOSE j \in ends : \A k \in ends : j <= k)

\* C32: when the model's output (without its fences) is not valid JSON and the
\* substring the fallback extracts is not valid JSON either, or there is none, the
\* request is answered with the parse-failure result, success false and no coaching;
\* it is not answered as an exception is, with status 500.
C32_TypedParseFailure ==
    \A r \in RequestIds :
        ( /\ Answered(r)
          /\ Unparsable(Cleaned(modelOutput))
          /\ Unparsable(FirstBalanced(Cleaned(modelOutput)))
          /\ Unparsable(JsonMatch(Cleaned(modelOutput))) ) =>
            /\ responses[r].status = 200
            /\ responses[r] = Unparseable(responses[r].knowledgeContext)

\* C33: when the model's output is not valid JSON but holds a valid JSON object as its
\* first balanced { ... }, whatever follows it, the coaching returned is that object.
C33_FallbackParsesFirstBalanced ==
    \A r \in RequestIds :
        ( /\ Answered(r)
          /\ ~ValidJson(Cleaned(modelOutput))
          /\ ValidJson(FirstBalanced(Cleaned(modelOutput))) ) =>
            /\ responses[r].success = "true"
            /\ responses[r].coaching = ParsedJson(FirstBalanced(Cleaned(modelOutput)))

\* C34: every coaching object returned has an escalationRisk, an integer in [0, 100].
C34_EscalationRiskInRange ==
    \A r \in RequestIds :
        responses[r].success = "true" =>
            /\ responses[r].coaching.escalationRisk.given
            /\ responses[r].coaching.escalationRisk.value \in 0..100

(***************************************************************************)
(* The two pages of a voice session.                                       *)
(***************************************************************************)
\* Every event has been delivered: the server has handled what the pages emitted and
\* the pages what the server emitted to them.
Quiescent ==
    /\ \A page \in Pages : outbox[page] = <<>> /\ seen[page] = Len(inbox[ConnOf(page)])
    /\ arriving.at < handled

\* The entries of the session the server stores.
StoredEntries == voiceSessions[PageSession].entries

\* The server has stored an entry of each page in the session.
BothSaid ==
    /\ voiceSessions[PageSession].exists
    /\ \A page \in Pages : \E i \in DOMAIN StoredEntries : StoredEntries[i].speaker = page

\* The entries of one speaker in a transcript, in its order.
SaidBy(page, entries) == SelectSeq(entries, LAMBDA e : e.speaker = page)

BothInCall ==
    /\ voiceSessions[PageSession].exists
    /\ VoiceRoom(PageSession) \in rooms[ConnOf("agent")] \cap rooms[ConnOf("customer")]
    /\ \A page \in Pages : inCall[page] /\ peerConnection[page].exists

\* One page has received the other's offer and the other that page's answer.
Negotiated ==
    \E offerer \in Pages : \E answerer \in Pages \ {offerer} :
        /\ peerConnection[answerer].remote = "offer"
        /\ peerConnection[answerer].local = "answer"
        /\ peerConnection[offerer].remote = "answer"

\* C38: after the agent has started the call and the customer has joined the session
\* and started its call, the negotiation completes: when every event has been delivered
\* and nothing is left to handle, one page has got the other's offer and answered, and
\* the offerer has got the answer.
C38_NegotiationCompletes == (Quiescent /\ BothInCall) => Negotiated

(***************************************************************************)
(* processDocument with its awaits.                                        *)
(***************************************************************************)
\* Where the chunks of a document are in the store.
PositionsOf(doc) == {i \in DOMAIN chunks : chunks[i].docId = doc}

\* All the chunks of the document are in the store, one per window, next to each other
\* and in increasing chunkIndex order, and its document record is.
WhollyStored(doc) ==
    /\ doc \in documents
    /\ Cardinality(PositionsOf(doc)) = ingestion[doc].windows
    /\ \A i \in PositionsOf(doc), j \in PositionsOf(doc) :
            /\ \A k \in i..j : k \in PositionsOf(doc)
            /\ i < j => chunks[i].chunkIndex < chunks[j].chunkIndex
    /\ \A i \in PositionsOf(doc) : chunks[i].chunkIndex \in 0..(ingestion[doc].windows - 1)

\* Nothing of the document is in the store.
NotStored(doc) == doc \notin documents /\ PositionsOf(doc) = {}

\* C36: whatever the interleaving of ingestions and searches at their awaits, each
\* document is in the store wholly (all its chunks, contiguous and in increasing
\* chunkIndex order, with its document record) if its ingestion has returned true and not
\* at all otherwise, no search returns a chunk of a document that is not wholly stored,
\* and no step that is not the end of an ingestion changes the store.
C36_NoPartialDocument ==
    /\ [](\A doc \in Docs :
            IF ingestion[doc].at = "done" THEN WhollyStored(doc) ELSE NotStored(doc))
    /\ [](\A i \in DOMAIN results : ingestion[results[i].docName].at = "done")
    /\ [][ (\A doc \in Docs : ingestion'[doc].at = "done" => ingestion[doc].at = "done")
                => UNCHANGED <<chunks, documents>> ]_vars

\* One document is wholly stored with two windows, while another is being embedded and
\* a search waits for its query embedding.
C36_Witness ==
    /\ \E doc \in Docs : ingestion[doc].at = "done" /\ ingestion[doc].windows = 2
                            /\ WhollyStored(doc)
    /\ \E doc \in Docs : ingestion[doc].at = "embedding"
    /\ searching /= {}

(***************************************************************************)
(* POST /api/admin/end-conversation.                                       *)
(***************************************************************************)
\* C37: a conversation is ended at most once: where only end-conversation requests
\* remove conversations, a request that waited for the summary succeeds, broadcasting
\* conversation_ended, only if the conversation is still there; when an overlapping
\* request has removed it, it gets Not found.
C37_EndedAtMostOnce ==
    [][\A id \in ConvIds :
            EndConversationResume(id, TRUE) => conversations[id].exists]_vars

(***************************************************************************)
(* The while loop of chunkText.                                            *)
(***************************************************************************)
\* C39: for every text and every 0 <= overlap < size, chunkText returns, and until it
\* does every iteration of its loop leaves start greater than it was.
C39_ChunkTextTerminates ==
    /\ <>chunked
    /\ [][~chunked' => windowStart' > windowStart]_vars

\* chunkText has returned after three iterations or more, of overlapping windows.
C39_Witness ==
    /\ chunked
    /\ overlap > 0
    /\ Len(textChunks) >= 3
    /\ windowStart > 0

=============================================================================
